---- MODULE Spec2Model ----
(***************************************************************************)
(* ChatGPT-Next-Web-Session-Exporter: the repair transform                 *)
(* (repairdata.RepairSessionData) and the CSV projections of the exporter  *)
(* package (ConvertSessionsToCSV, CreateSeparateCSVFiles), its dataset     *)
(* extractor (ExtractToDataset) and its reader (ReadJSONFromFile).         *)
(*                                                                         *)
(* JSON texts are modelled as trees whose objects are ORDERED member       *)
(* lists (so that key order, absent keys, null and unknown keys are all    *)
(* distinguishable), together with the whitespace style of the text.       *)
(* JSON numbers are integer literals.  encoding/json is modelled by the    *)
(* two operators Unmarshal and Marshal, driven by descriptors of the Go    *)
(* struct types of the source.  Not modelled: keys that differ from a      *)
(* struct tag only in letter case (encoding/json accepts them), an object  *)
(* with the same key twice, and numbers with a fraction or an exponent     *)
(* (JFloat stands for such a literal; it appears only where a              *)
(* StringOrInt is decoded).                                                *)
(***************************************************************************)
EXTENDS Integers, Sequences, FiniteSets, TLC

(***************************************************************************)
(* Bounds                                                                  *)
(***************************************************************************)
MaxSessions == 2

(***************************************************************************)
(* JSON values                                                             *)
(***************************************************************************)
JNull == [t |-> "null"]
JStr(s) == [t |-> "str", s |-> s]
JNum(n) == [t |-> "num", n |-> n]
JFloat(x) == [t |-> "float", x |-> x]
JBool(b) == [t |-> "bool", b |-> b]
JArr(e) == [t |-> "arr", e |-> e]
JObj(m) == [t |-> "obj", m |-> m]
Member(k, v) == [k |-> k, v |-> v]

HasKey(j, k) == \E i \in 1..Len(j.m) : j.m[i].k = k
Get(j, k) == j.m[CHOOSE i \in 1..Len(j.m) : j.m[i].k = k].v

(***************************************************************************)
(* Go values: string, int and bool are TLA+ strings, integers and          *)
(* booleans; a pointer or a slice is GNil or GSome(value); a struct is a   *)
(* function from its Go field names.                                       *)
(***************************************************************************)
GNil == [nil |-> TRUE]
GSome(v) == [nil |-> FALSE, v |-> v]

\* Descriptors of Go types.
TString == [kind |-> "string"]
TInt == [kind |-> "int"]
TInt64 == [kind |-> "int64"]
TFloat64 == [kind |-> "float64"]
TBool == [kind |-> "bool"]
TStringOrInt == [kind |-> "StringOrInt"]
TSlice(ty) == [kind |-> "slice", elem |-> ty]
TPtr(ty) == [kind |-> "ptr", elem |-> ty]
TStruct(fields) == [kind |-> "struct", fields |-> fields]
Field(name, key, ty) == [name |-> name, key |-> key, ty |-> ty, omitempty |-> FALSE]
FieldOmitEmpty(name, key, ty) == [name |-> name, key |-> key, ty |-> ty, omitempty |-> TRUE]

\* repairdata.Message
RMessage ==
  TStruct(<< Field("ID", "id", TString), Field("Date", "date", TString),
             Field("Role", "role", TString), Field("Content", "content", TString) >>)

\* repairdata.Stat
RStat ==
  TStruct(<< Field("TokenCount", "tokenCount", TInt), Field("WordCount", "wordCount", TInt),
             Field("CharCount", "charCount", TInt) >>)

\* repairdata.SystemPrompt
SystemPrompt == TStruct(<< Field("Default", "default", TString) >>)

\* repairdata.ModelConfig
ModelConfig ==
  TStruct(<< Field("Model", "model", TString),
             Field("Temperature", "temperature", TFloat64),
             Field("TopP", "top_p", TFloat64),
             Field("MaxTokens", "max_tokens", TInt),
             Field("PresencePenalty", "presence_penalty", TFloat64),
             Field("FrequencyPenalty", "frequency_penalty", TFloat64),
             Field("N", "n", TInt),
             Field("Quality", "quality", TString),
             Field("Size", "size", TString),
             Field("Style", "style", TString),
             Field("SystemFingerprint", "system_fingerprint", TString),
             Field("SendMemory", "sendMemory", TBool),
             Field("HistoryMessageCount", "historyMessageCount", TInt),
             Field("CompressMessageLengthThreshold", "compressMessageLengthThreshold", TInt),
             Field("EnableInjectSystemPrompts", "enableInjectSystemPrompts", TBool),
             Field("Template", "template", TString),
             FieldOmitEmpty("SystemPrompt", "systemprompt", TPtr(SystemPrompt)) >>)

\* repairdata.Mask
RMask ==
  TStruct(<< Field("ID", "id", TStringOrInt),
             Field("Avatar", "avatar", TString),
             Field("Name", "name", TString),
             Field("Context", "context", TSlice(RMessage)),
             Field("SyncGlobalConfig", "syncGlobalConfig", TBool),
             Field("ModelConfig", "modelConfig", TPtr(ModelConfig)),
             Field("Lang", "lang", TString),
             Field("Builtin", "builtin", TBool),
             Field("CreatedAt", "createdAt", TInt64) >>)

\* repairdata.Session
RSession ==
  TStruct(<< Field("ID", "id", TString),
             Field("Topic", "topic", TString),
             Field("MemoryPrompt", "memoryPrompt", TString),
             Field("Messages", "messages", TSlice(RMessage)),
             Field("Stat", "stat", RStat),
             Field("LastUpdate", "lastUpdate", TInt64),
             Field("LastSummarizeIndex", "lastSummarizeIndex", TInt),
             Field("Mask", "mask", TPtr(RMask)) >>)

\* repairdata.OldData; repairdata.NewData has the same fields and tags.
OldData ==
  TStruct(<< Field("ChatNextWebStore", "chat-next-web-store",
                   TStruct(<< Field("Sessions", "sessions", TSlice(RSession)),
                              Field("CurrentSessionIndex", "currentSessionIndex", TInt),
                              Field("LastUpdateTime", "lastUpdateTime", TInt64) >>)) >>)

NewData == OldData

(***************************************************************************)
(* encoding/json                                                           *)
(***************************************************************************)
IsNumeric(ty) == ty.kind \in {"int", "int64", "float64"}

RECURSIVE Zero(_)
Zero(ty) ==
  CASE ty.kind \in {"string", "StringOrInt"} -> ""
    [] IsNumeric(ty) -> 0
    [] ty.kind = "bool" -> FALSE
    [] ty.kind \in {"slice", "ptr"} -> GNil
    [] ty.kind = "struct" ->
         [n \in {ty.fields[i].name : i \in 1..Len(ty.fields)} |->
            Zero(ty.fields[CHOOSE i \in 1..Len(ty.fields) : ty.fields[i].name = n].ty)]

\* StringOrInt.UnmarshalJSON: a string is taken as it is, an integer is
\* formatted in base 10, null leaves the empty string, anything else fails.
UnmarshalJSON(data) ==
  CASE data.t = "str" -> [ok |-> TRUE, v |-> data.s]
    [] data.t = "null" -> [ok |-> TRUE, v |-> ""]
    [] data.t = "num" -> [ok |-> TRUE, v |-> ToString(data.n)]
    [] OTHER -> [ok |-> FALSE]

\* json.Unmarshal of the value j into a zero value of type ty.
RECURSIVE Unmarshal(_, _)
Unmarshal(ty, j) ==
  CASE ty.kind = "StringOrInt" -> UnmarshalJSON(j)
    [] ty.kind = "ptr" ->
         IF j.t = "null" THEN [ok |-> TRUE, v |-> GNil]
         ELSE LET r == Unmarshal(ty.elem, j)
              IN  IF r.ok THEN [ok |-> TRUE, v |-> GSome(r.v)] ELSE [ok |-> FALSE]
    [] j.t = "null" -> [ok |-> TRUE, v |-> Zero(ty)]
    [] ty.kind = "string" ->
         IF j.t = "str" THEN [ok |-> TRUE, v |-> j.s] ELSE [ok |-> FALSE]
    [] IsNumeric(ty) ->
         IF j.t = "num" THEN [ok |-> TRUE, v |-> j.n] ELSE [ok |-> FALSE]
    [] ty.kind = "bool" ->
         IF j.t = "bool" THEN [ok |-> TRUE, v |-> j.b] ELSE [ok |-> FALSE]
    [] ty.kind = "slice" ->
         IF j.t # "arr" THEN [ok |-> FALSE]
         ELSE LET rs == [i \in 1..Len(j.e) |-> Unmarshal(ty.elem, j.e[i])]
              IN  IF \A i \in 1..Len(j.e) : rs[i].ok
                  THEN [ok |-> TRUE, v |-> GSome([i \in 1..Len(j.e) |-> rs[i].v])]
                  ELSE [ok |-> FALSE]
    [] ty.kind = "struct" ->
         IF j.t # "obj" THEN [ok |-> FALSE]
         ELSE LET idx(n) == CHOOSE i \in 1..Len(ty.fields) : ty.fields[i].name = n
                  names == {ty.fields[i].name : i \in 1..Len(ty.fields)}
                  rs == [n \in names |->
                           IF HasKey(j, ty.fields[idx(n)].key)
                           THEN Unmarshal(ty.fields[idx(n)].ty, Get(j, ty.fields[idx(n)].key))
                           ELSE [ok |-> TRUE, v |-> Zero(ty.fields[idx(n)].ty)]]
              IN  IF \A n \in names : rs[n].ok
                  THEN [ok |-> TRUE, v |-> [n \in names |-> rs[n].v]]
                  ELSE [ok |-> FALSE]

\* The members of a struct, in declaration order; an omitempty field that
\* holds a nil pointer is left out.
RECURSIVE Marshal(_, _)
RECURSIVE MarshalFields(_, _, _)
MarshalFields(fields, g, i) ==
  IF i > Len(fields) THEN << >>
  ELSE LET f == fields[i]
       IN  (IF f.omitempty /\ g[f.name] = GNil THEN << >>
            ELSE << Member(f.key, Marshal(f.ty, g[f.name])) >>)
           \o MarshalFields(fields, g, i + 1)

\* json.Marshal of the Go value g of type ty.
Marshal(ty, g) ==
  CASE ty.kind \in {"string", "StringOrInt"} -> JStr(g)
    [] IsNumeric(ty) -> JNum(g)
    [] ty.kind = "bool" -> JBool(g)
    [] ty.kind = "ptr" -> IF g = GNil THEN JNull ELSE Marshal(ty.elem, g.v)
    [] ty.kind = "slice" ->
         IF g = GNil THEN JNull
         ELSE JArr([i \in 1..Len(g.v) |-> Marshal(ty.elem, g.v[i])])
    [] ty.kind = "struct" -> JObj(MarshalFields(ty.fields, g, 1))

(***************************************************************************)
(* repairdata.RepairSessionData                                            *)
(***************************************************************************)
DefaultSystemPrompt ==
  "\nYou are ChatGPT, a large language model trained by OpenAI.\nKnowledge cutoff: {{cutoff}}\nCurrent model: {{model}}\nCurrent time: {{time}}\nLatex inline: $x^2$ \nLatex block: $$e=mc^2$$\n"

\* PatchSession without the test that systemprompt is missing.
PatchSessionOverwrite(session) ==
  IF /\ session.Mask # GNil
     /\ session.Mask.v.ModelConfig # GNil
  THEN [session EXCEPT !.Mask.v.ModelConfig.v.SystemPrompt =
                          GSome([Default |-> DefaultSystemPrompt])]
  ELSE session

\* The body of the loop over the sessions, for one session.
PatchSession(session) ==
  IF /\ session.Mask # GNil
     /\ session.Mask.v.ModelConfig # GNil
     /\ session.Mask.v.ModelConfig.v.SystemPrompt = GNil
  THEN [session EXCEPT !.Mask.v.ModelConfig.v.SystemPrompt =
                          GSome([Default |-> DefaultSystemPrompt])]
  ELSE session

NeedsPatch(session) ==
  /\ session.Mask # GNil
  /\ session.Mask.v.ModelConfig # GNil
  /\ session.Mask.v.ModelConfig.v.SystemPrompt = GNil

\* PatchSessions with a loop that stops after the first session it patched.
PatchSessionsBreak(sessions) ==
  IF sessions = GNil THEN sessions
  ELSE GSome([i \in 1..Len(sessions.v) |->
                IF \E k \in 1..(i - 1) : NeedsPatch(sessions.v[k])
                THEN sessions.v[i]
                ELSE PatchSession(sessions.v[i])])

\* The loop over newData.ChatNextWebStore.Sessions.
PatchSessions(sessions) ==
  IF sessions = GNil THEN sessions
  ELSE GSome([i \in 1..Len(sessions.v) |-> PatchSession(sessions.v[i])])

\* A text is [bad |-> TRUE] when it is not JSON, and otherwise its tree
\* and the whitespace style it is written in.
RepairSessionData(oldDataBytes) ==
  IF oldDataBytes.bad THEN [err |-> TRUE]
  ELSE LET oldData == Unmarshal(OldData, oldDataBytes.tree)
       IN  IF ~oldData.ok THEN [err |-> TRUE]
           ELSE LET newData ==
                      [oldData.v EXCEPT !.ChatNextWebStore.Sessions = PatchSessions(@)]
                IN  [err |-> FALSE,
                     bytes |-> [bad |-> FALSE, ws |-> "indent2",
                                tree |-> Marshal(NewData, newData)]]

(***************************************************************************)
(* Package exporter: the CSV projections                                   *)
(***************************************************************************)
FormatOptionInline == 1
FormatOptionPerLine == 2
FormatOptionJSON == 3
OutputFormatSeparateCSVFiles == 4

\* exporter.Message
Message ==
  TStruct(<< Field("ID", "id", TString), Field("Date", "date", TString),
             Field("Role", "role", TString), Field("Content", "content", TString) >>)

\* exporter.Stat
Stat ==
  TStruct(<< Field("TokenCount", "tokenCount", TInt), Field("WordCount", "wordCount", TInt),
             Field("CharCount", "charCount", TInt) >>)

\* exporter.Mask
Mask ==
  TStruct(<< Field("ID", "id", TStringOrInt), Field("Avatar", "avatar", TString),
             Field("Name", "name", TString), Field("Lang", "lang", TString),
             Field("CreatedAt", "createdAt", TInt64) >>)

\* exporter.Session
Session ==
  TStruct(<< Field("ID", "id", TString),
             Field("Topic", "topic", TString),
             Field("MemoryPrompt", "memoryPrompt", TString),
             Field("Stat", "stat", Stat),
             Field("LastUpdate", "lastUpdate", TInt64),
             Field("LastSummarizeIndex", "lastSummarizeIndex", TInt),
             Field("Mask", "mask", Mask),
             Field("Messages", "messages", TSlice(Message)) >>)

\* exporter.Store
Store == TStruct(<< Field("Sessions", "sessions", TSlice(Session)) >>)

\* exporter.ChatNextWebStore
ChatNextWebStore == TStruct(<< Field("ChatNextWebStore", "chat-next-web-store", Store) >>)

\* A range loop that visits the elements of a slice from the last to the
\* first.
RangeReversed(slice) ==
  IF slice = GNil THEN << >> ELSE [i \in 1..Len(slice.v) |-> slice.v[Len(slice.v) + 1 - i]]

\* The elements a range loop over a slice visits.
Range(slice) == IF slice = GNil THEN << >> ELSE slice.v

\* A row handed to a csv.Writer.  kind is not part of the file: it records
\* whether WriteHeaders or a data-writing function wrote the row.
HeaderRow(cells) == [kind |-> "header", cells |-> cells]
DataRow(cells) == [kind |-> "data", cells |-> cells]

\* getCSVHeaders with the message_id and date columns of PerLine exchanged.
getCSVHeadersSwapped(formatOption) ==
  CASE formatOption = FormatOptionInline ->
         [err |-> FALSE, headers |-> << "id", "topic", "memoryPrompt", "messages" >>]
    [] formatOption = FormatOptionPerLine ->
         [err |-> FALSE,
          headers |-> << "session_id", "date", "message_id", "role", "content", "memoryPrompt" >>]
    [] formatOption = FormatOptionJSON ->
         [err |-> FALSE, headers |-> << "id", "topic", "memoryPrompt", "messages" >>]
    [] OTHER -> [err |-> TRUE]

getCSVHeaders(formatOption) ==
  CASE formatOption = FormatOptionInline ->
         [err |-> FALSE, headers |-> << "id", "topic", "memoryPrompt", "messages" >>]
    [] formatOption = FormatOptionPerLine ->
         [err |-> FALSE,
          headers |-> << "session_id", "message_id", "date", "role", "content", "memoryPrompt" >>]
    [] formatOption = FormatOptionJSON ->
         [err |-> FALSE, headers |-> << "id", "topic", "memoryPrompt", "messages" >>]
    [] OTHER -> [err |-> TRUE]

getWriteFunction(formatOption) ==
  CASE formatOption = FormatOptionInline -> [err |-> FALSE, fn |-> "writeInlineFormat"]
    [] formatOption = FormatOptionPerLine -> [err |-> FALSE, fn |-> "writePerLineFormat"]
    [] formatOption = FormatOptionJSON -> [err |-> FALSE, fn |-> "writeJSONFormat"]
    [] OTHER -> [err |-> TRUE]

\* strings.Join with the separator written without its space.
JoinNoSpace(elems, sep) ==
  LET RECURSIVE Rest(_)
      Rest(i) == IF i > Len(elems) THEN "" ELSE ";" \o elems[i] \o Rest(i + 1)
  IN  IF Len(elems) = 0 THEN "" ELSE elems[1] \o Rest(2)

\* strings.Join: the first element, then the separator before each other one.
Join(elems, sep) ==
  LET RECURSIVE Rest(_)
      Rest(i) == IF i > Len(elems) THEN "" ELSE sep \o elems[i] \o Rest(i + 1)
  IN  IF Len(elems) = 0 THEN "" ELSE elems[1] \o Rest(2)

\* writeInlineFormat that writes no row for a session without messages.
writeInlineFormatSkipEmpty(session) ==
  LET messages == Range(session.Messages)
      messageContents ==
        [i \in 1..Len(messages) |->
           "[" \o messages[i].Role \o ", " \o messages[i].Date \o "] \""
               \o messages[i].Content \o "\""]
  IN  IF Len(messages) = 0 THEN << >>
      ELSE << DataRow(<< session.ID, session.Topic, session.MemoryPrompt,
                         Join(messageContents, "; ") >>) >>

\* The rows writeInlineFormat writes for a session.
writeInlineFormat(session) ==
  LET messages == Range(session.Messages)
      messageContents ==
        [i \in 1..Len(messages) |->
           "[" \o messages[i].Role \o ", " \o messages[i].Date \o "] \""
               \o messages[i].Content \o "\""]
  IN  << DataRow(<< session.ID, session.Topic, session.MemoryPrompt,
                    Join(messageContents, "; ") >>) >>

\* writePerLineFormat that starts every session with the column names.
writePerLineFormatWithTitles(session) ==
  LET messages == Range(session.Messages)
  IN  << DataRow(<< "session_id", "message_id", "date", "role", "content", "memoryPrompt" >>) >>
      \o [i \in 1..Len(messages) |->
            DataRow(<< session.ID, messages[i].ID, messages[i].Date, messages[i].Role,
                       messages[i].Content, session.MemoryPrompt >>)]

\* writePerLineFormat that writes only the first message of a session.
writePerLineFormatFirstOnly(session) ==
  LET messages == Range(session.Messages)
  IN  [i \in 1..(IF Len(messages) > 0 THEN 1 ELSE 0) |->
         DataRow(<< session.ID, messages[i].ID, messages[i].Date, messages[i].Role,
                    messages[i].Content, session.MemoryPrompt >>)]

\* The rows writePerLineFormat writes for a session.
writePerLineFormat(session) ==
  LET messages == Range(session.Messages)
  IN  [i \in 1..Len(messages) |->
         DataRow(<< session.ID, messages[i].ID, messages[i].Date, messages[i].Role,
                    messages[i].Content, session.MemoryPrompt >>)]

\* A text is read as its lexemes: every character JSON or json.Marshal
\* treats specially is a lexeme of its own, a run of other characters is
\* one lexeme.  Of the strings of the model only QuotedContent and
\* MarkupContent hold such characters.
QuotedContent == "say \"hi\""
MarkupContent == "C:\\tmp <b>"
Lexemes(str) ==
  CASE str = "" -> << >>
    [] str = QuotedContent -> << "say ", "\"", "hi", "\"" >>
    [] str = MarkupContent -> << "C:", "\\", "tmp ", "<", "b", ">" >>
    [] OTHER -> << str >>

\* The concatenation of lexemes.
RECURSIVE Text(_)
Text(lexemes) == IF lexemes = << >> THEN "" ELSE Head(lexemes) \o Text(Tail(lexemes))

\* json.Marshal writing a string without escaping anything.
EscapeStringRaw(str) == Lexemes(str)

\* The escaping json.Marshal applies inside a string: a backslash before a
\* quote and before a backslash, \u003c \u003e \u0026 for < > &.
EscapeString(str) ==
  LET Escape(c) ==
        CASE c = "\"" -> << "\\", "\"" >>
          [] c = "\\" -> << "\\", "\\" >>
          [] c = "<" -> << "\\", "u003c" >>
          [] c = ">" -> << "\\", "u003e" >>
          [] c = "&" -> << "\\", "u0026" >>
          [] OTHER -> << c >>
      RECURSIVE All(_)
      All(cs) == IF cs = << >> THEN << >> ELSE Escape(Head(cs)) \o All(Tail(cs))
  IN  All(Lexemes(str))

\* The lexemes of the compact text json.Marshal produces for a tree.
RECURSIVE Encode(_)
Encode(j) ==
  LET RECURSIVE Elements(_)
      Elements(i) ==
        IF i > Len(j.e) THEN << >>
        ELSE (IF i > 1 THEN << "," >> ELSE << >>) \o Encode(j.e[i]) \o Elements(i + 1)
      RECURSIVE Members(_)
      Members(i) ==
        IF i > Len(j.m) THEN << >>
        ELSE (IF i > 1 THEN << "," >> ELSE << >>)
             \o << "\"" >> \o EscapeString(j.m[i].k) \o << "\"", ":" >>
             \o Encode(j.m[i].v) \o Members(i + 1)
  IN  CASE j.t = "null" -> << "null" >>
        [] j.t = "str" -> << "\"" >> \o EscapeString(j.s) \o << "\"" >>
        [] j.t = "num" -> << ToString(j.n) >>
        [] j.t = "bool" -> << IF j.b THEN "true" ELSE "false" >>
        [] j.t = "arr" -> << "[" >> \o Elements(1) \o << "]" >>
        [] j.t = "obj" -> << "{" >> \o Members(1) \o << "}" >>

\* The compact text json.Marshal produces for a tree.
Render(j) == Text(Encode(j))

\* The rows writeJSONFormat writes for a session.
writeJSONFormat(session) ==
  LET messagesJSON == Render(Marshal(TSlice(Message), session.Messages))
  IN  << DataRow(<< session.ID, session.Topic, session.MemoryPrompt, messagesJSON >>) >>

\* The call writeFunc(csvWriter, session) of ConvertSessionsToCSV.
writeFunc(fn, session) ==
  CASE fn = "writeInlineFormat" -> writeInlineFormat(session)
    [] fn = "writePerLineFormat" -> writePerLineFormat(session)
    [] fn = "writeJSONFormat" -> writeJSONFormat(session)

\* The rows WriteSessionData writes.
RECURSIVE WriteSessionData(_)
WriteSessionData(ss) ==
  IF ss = << >> THEN << >>
  ELSE << DataRow(<< Head(ss).ID, Head(ss).Topic, Head(ss).MemoryPrompt >>) >>
       \o WriteSessionData(Tail(ss))

\* The rows WriteMessageData writes.
RECURSIVE WriteMessageData(_)
WriteMessageData(ss) ==
  IF ss = << >> THEN << >>
  ELSE LET messages == Range(Head(ss).Messages)
       IN  [i \in 1..Len(messages) |->
              DataRow(<< Head(ss).ID, messages[i].ID, messages[i].Date, messages[i].Role,
                         messages[i].Content, Head(ss).MemoryPrompt >>)]
           \o WriteMessageData(Tail(ss))

(***************************************************************************)
(* Input files of the repair transform                                     *)
(***************************************************************************)
\* How the mask of a session appears in the input.
MaskKinds == {"absent", "null", "noMC", "nullMC", "noSP", "nullSP", "hasSP"}

\* "full": every field the repair schema knows, and only those;
\* "sparse": only a few of them, in another order;
\* "extra": full, plus fields of the real export the schema does not know;
\* "intid": full, with the mask id written as an integer;
\* "badid": full, with the mask id written as a boolean.
Shapes == {"full", "sparse", "extra", "intid", "badid"}

CustomPrompt == "You are a pirate."

MessageJSON(shape, n) ==
  JObj(<< Member("id", JStr("m" \o ToString(n))),
          Member("date", JStr("11/27/2023, 10:14:00 AM")),
          Member("role", JStr(IF n = 1 THEN "user" ELSE "assistant")),
          Member("content", JStr(IF n = 1 THEN "hello" ELSE "hi there")) >>
       \o (IF shape = "extra" THEN << Member("streaming", JBool(FALSE)) >> ELSE << >>))

SystemPromptMember(kind) ==
  CASE kind = "nullSP" -> << Member("systemprompt", JNull) >>
    [] kind = "hasSP" ->
         << Member("systemprompt", JObj(<< Member("default", JStr(CustomPrompt)) >>)) >>
    [] OTHER -> << >>

ModelConfigJSON(kind, shape) ==
  IF shape = "sparse"
  THEN JObj(SystemPromptMember(kind) \o << Member("model", JStr("gpt-4")) >>)
  ELSE JObj(<< Member("model", JStr("gpt-4")),
               Member("temperature", JNum(1)),
               Member("top_p", JNum(1)),
               Member("max_tokens", JNum(2000)),
               Member("presence_penalty", JNum(0)),
               Member("frequency_penalty", JNum(0)),
               Member("n", JNum(1)),
               Member("quality", JStr("standard")),
               Member("size", JStr("1024x1024")),
               Member("style", JStr("vivid")),
               Member("system_fingerprint", JStr("")),
               Member("sendMemory", JBool(TRUE)),
               Member("historyMessageCount", JNum(4)),
               Member("compressMessageLengthThreshold", JNum(1000)),
               Member("enableInjectSystemPrompts", JBool(TRUE)),
               Member("template", JStr("{{input}}")) >>
            \o SystemPromptMember(kind)
            \o (IF shape = "extra" THEN << Member("providerName", JStr("OpenAI")) >> ELSE << >>))

ModelConfigMember(kind, shape) ==
  CASE kind = "noMC" -> << >>
    [] kind = "nullMC" -> << Member("modelConfig", JNull) >>
    [] OTHER -> << Member("modelConfig", ModelConfigJSON(kind, shape)) >>

MaskIDJSON(shape) ==
  CASE shape = "intid" -> JNum(100000)
    [] shape = "badid" -> JBool(TRUE)
    [] OTHER -> JStr("mask-1")

MaskJSON(kind, shape) ==
  IF shape = "sparse"
  THEN JObj(ModelConfigMember(kind, shape) \o << Member("name", JStr("Pirate")) >>)
  ELSE JObj(<< Member("id", MaskIDJSON(shape)),
               Member("avatar", JStr("1f600")),
               Member("name", JStr("Pirate")),
               Member("context", JArr(<< MessageJSON(shape, 1) >>)),
               Member("syncGlobalConfig", JBool(FALSE)) >>
            \o ModelConfigMember(kind, shape)
            \o << Member("lang", JStr("en")),
                  Member("builtin", JBool(FALSE)),
                  Member("createdAt", JNum(1701080040)) >>
            \o (IF shape = "extra" THEN << Member("hideContext", JBool(TRUE)) >> ELSE << >>))

MaskMember(kind, shape) ==
  CASE kind = "absent" -> << >>
    [] kind = "null" -> << Member("mask", JNull) >>
    [] OTHER -> << Member("mask", MaskJSON(kind, shape)) >>

\* The n-th session of an input file of the given shape.
SessionJSON(kind, shape, n) ==
  IF shape = "sparse"
  THEN JObj(MaskMember(kind, shape) \o << Member("id", JStr("s" \o ToString(n))) >>)
  ELSE JObj(<< Member("id", JStr("s" \o ToString(n))),
               Member("topic", JStr("New Conversation")),
               Member("memoryPrompt", JStr("Example prompt")),
               Member("messages", JArr(<< MessageJSON(shape, 1), MessageJSON(shape, 2) >>)),
               Member("stat", JObj(<< Member("tokenCount", JNum(12)),
                                      Member("wordCount", JNum(5)),
                                      Member("charCount", JNum(13)) >>)),
               Member("lastUpdate", JNum(1701080041)),
               Member("lastSummarizeIndex", JNum(0)) >>
            \o MaskMember(kind, shape)
            \o (IF shape = "extra" THEN << Member("clearContextIndex", JNum(1)) >> ELSE << >>))

KindLists == UNION {[1..n -> MaskKinds] : n \in 0..MaxSessions}

\* An input file: one session per element of kinds, all of the given shape.
InputFile(kinds, shape, ws) ==
  [bad |-> FALSE, ws |-> ws,
   tree |-> JObj(<< Member("chat-next-web-store",
                     JObj(<< Member("sessions",
                                    JArr([n \in 1..Len(kinds) |-> SessionJSON(kinds[n], shape, n)])) >>
                          \o (IF shape # "sparse"
                              THEN << Member("currentSessionIndex", JNum(0)),
                                      Member("lastUpdateTime", JNum(1701080042)) >>
                              ELSE << >>))) >>
                 \o (IF shape = "extra"
                     THEN << Member("access-control", JObj(<< Member("hideUserApiKey", JBool(FALSE)) >>)) >>
                     ELSE << >>))]

InputFiles ==
  {[bad |-> TRUE]} \cup
  {InputFile(kinds, shape, ws) : kinds \in KindLists, shape \in Shapes, ws \in {"compact", "indent2"}}

(***************************************************************************)
(* Session lists handed to the exporter                                    *)
(***************************************************************************)
Msg(id, date, role, content) == [ID |-> id, Date |-> date, Role |-> role, Content |-> content]

\* An exporter.Session; the fields no CSV projection reads are the same in
\* all of them.
Sess(id, topic, memoryPrompt, messages) ==
  [ID |-> id, Topic |-> topic, MemoryPrompt |-> memoryPrompt,
   Stat |-> [TokenCount |-> 12, WordCount |-> 5, CharCount |-> 13],
   LastUpdate |-> 1701080041, LastSummarizeIndex |-> 0,
   Mask |-> [ID |-> "100000", Avatar |-> "1f600", Name |-> "Pirate", Lang |-> "en",
             CreatedAt |-> 1701080040],
   Messages |-> messages]

\* One session with two messages (user, assistant).
SessionTwoMessages ==
  Sess("8dgQves8ClEy0T4vfHjLs", "New Conversation", "Example prompt",
       GSome(<< Msg("ZKSQGCgGKgrtBCSoqLhFe", "11/27/2023, 10:14:00 AM", "user", "hello"),
                Msg("S7DZB9nPoMk4Go_30zESE", "11/27/2023, 10:14:05 AM", "assistant", "hi there") >>))

\* "messages": [] in the file.
SessionNoMessages == Sess("s-empty", "Empty", "", GSome(<< >>))

\* A session whose texts are the column names of the sessions table, with
\* "messages" missing from the file (a nil slice).
SessionNamedLikeColumns == Sess("id", "topic", "memoryPrompt", GNil)

\* A session and a message whose texts are the column names of PerLine.
MessageNamedLikeColumns ==
  Sess("session_id", "topic", "memoryPrompt",
       GSome(<< Msg("message_id", "date", "role", "content") >>))

\* A session whose two messages share an id and a date and hold characters
\* json.Marshal escapes.
SessionQuoted ==
  Sess("s-quoted", "Quotes", "Example prompt",
       GSome(<< Msg("m-q", "11/27/2023, 10:15:00 AM", "user", QuotedContent),
                Msg("m-q", "11/27/2023, 10:15:00 AM", "user", MarkupContent) >>))

SessionPool ==
  {SessionTwoMessages, SessionNoMessages, SessionNamedLikeColumns, MessageNamedLikeColumns,
   SessionQuoted}

SessionLists == UNION {[1..n -> SessionPool] : n \in 0..MaxSessions}

\* The selectors ConvertSessionsToCSV is called with.
FormatOptions ==
  {0, FormatOptionInline, FormatOptionPerLine, FormatOptionJSON, OutputFormatSeparateCSVFiles, 99}

OutputFile == "output.csv"
SessionsFile == "sessions.csv"
MessagesFile == "messages.csv"
FileNames == {OutputFile, SessionsFile, MessagesFile}

\* What a file left by an earlier run holds.
StaleRow == [kind |-> "stale", cells |-> << "stale" >>]
NoFile == [exists |-> FALSE, rows |-> << >>]
StaleFile == [exists |-> TRUE, rows |-> << StaleRow >>]

ErrNil == "nil"
ErrCreate == "failed to create file"
ErrInvalidFormat == "invalid format option"
ErrCanceled == "context canceled"

ErrCreateMessages == "failed to create file messages.csv"
ErrFlush == "failed to flush data"
ErrOpen == "open: no such file or directory"
ErrSyntax == "invalid character"
ErrUnmarshalType == "json: cannot unmarshal"
ErrFormat == "JSON does not match the expected format chat-next-web-store"

(***************************************************************************)
(* exporter.ExtractToDataset and exporter.ReadJSONFromFile                 *)
(***************************************************************************)
\* ExtractToDataset with the sessions under the key "data".
ExtractToDatasetData(ss) ==
  [err |-> ErrNil,
   bytes |-> [bad |-> FALSE, ws |-> "indent2",
              tree |-> JObj(<< Member("data", Marshal(TSlice(Session), GSome(ss))) >>)]]

\* json.MarshalIndent(dataset, "", "  ") of the map with the one key
\* "dataset"; marshalling these types cannot fail.
ExtractToDataset(ss) ==
  [err |-> ErrNil,
   bytes |-> [bad |-> FALSE, ws |-> "indent2",
              tree |-> JObj(<< Member("dataset", Marshal(TSlice(Session), GSome(ss))) >>)]]

\* A text that is a JSON value followed by something that is not JSON:
\* json.Unmarshal rejects it, a json.Decoder reads the value and leaves the
\* rest unread.
Trailing(text) == [bad |-> TRUE, ws |-> text.ws, first |-> text.tree]
HasFirstValue(text) == ~text.bad \/ "first" \in DOMAIN text
FirstValue(text) == IF text.bad THEN text.first ELSE text.tree

\* os.Open, json.NewDecoder(file).Decode(&store), and the test that
\* store.ChatNextWebStore.Sessions is not nil.
ReadJSONFromFile(file) ==
  IF ~file.exists THEN [err |-> ErrOpen]
  ELSE IF ~HasFirstValue(file.bytes) THEN [err |-> ErrSyntax]
  ELSE LET store == Unmarshal(ChatNextWebStore, FirstValue(file.bytes))
       IN  IF ~store.ok THEN [err |-> ErrUnmarshalType]
           ELSE IF store.v.ChatNextWebStore.Sessions = GNil
                THEN [err |-> ErrFormat, store |-> store.v]
                ELSE [err |-> ErrNil, store |-> store.v]

(***************************************************************************)
(* Files handed to ReadJSONFromFile                                        *)
(***************************************************************************)
Compact(tree) == [bad |-> FALSE, ws |-> "compact", tree |-> tree]

\* The values an id of a mask is written as.
IdValues ==
  {JStr("mask-1"), JStr(""), JStr("42"), JNum(0), JNum(100000), JNum(0 - 7), JNull,
   JBool(TRUE), JFloat("1.5"), JArr(<< >>), JObj(<< >>)}

\* A file with one session, the id of its mask written as id.
IdFile(id) ==
  Compact(JObj(<< Member("chat-next-web-store",
                    JObj(<< Member("sessions",
                              JArr(<< JObj(<< Member("id", JStr("s1")),
                                              Member("mask", JObj(<< Member("id", id) >>)) >>) >>)) >>)) >>))

\* Texts that are JSON and are not an export with sessions, and texts
\* whose sessions are not an array.
NoSessionsTexts ==
  {Compact(JNull),
   Compact(JObj(<< >>)),
   Compact(JObj(<< Member("access-control", JObj(<< >>)) >>)),
   Compact(JObj(<< Member("chat-next-web-store", JNull) >>)),
   Compact(JObj(<< Member("chat-next-web-store", JObj(<< >>)) >>)),
   Compact(JObj(<< Member("chat-next-web-store",
                     JObj(<< Member("currentSessionIndex", JNum(0)) >>)) >>)),
   Compact(JObj(<< Member("chat-next-web-store", JObj(<< Member("sessions", JNull) >>)) >>))}

WrongTypeTexts ==
  {Compact(JArr(<< >>)),
   Compact(JStr("chat-next-web-store")),
   Compact(JObj(<< Member("chat-next-web-store", JArr(<< >>)) >>)),
   Compact(JObj(<< Member("chat-next-web-store", JObj(<< Member("sessions", JStr("none")) >>)) >>)),
   Compact(JObj(<< Member("chat-next-web-store", JObj(<< Member("sessions", JObj(<< >>)) >>)) >>))}

\* An export whose mask has a modelConfig with max_tokens written as a
\* string: the exporter does not decode modelConfig, the repair does.
TokensAsTextFile ==
  Compact(JObj(<< Member("chat-next-web-store",
                    JObj(<< Member("sessions",
                              JArr(<< JObj(<< Member("id", JStr("s1")),
                                              Member("mask",
                                                JObj(<< Member("id", JStr("mask-1")),
                                                        Member("modelConfig",
                                                          JObj(<< Member("max_tokens", JStr("2000")) >>)) >>)) >>) >>)) >>)) >>))

ReaderTexts ==
  InputFiles \cup NoSessionsTexts \cup WrongTypeTexts \cup {IdFile(id) : id \in IdValues}
  \cup {TokensAsTextFile}
  \cup {Trailing(t) : t \in NoSessionsTexts \cup {IdFile(JStr("mask-1")), InputFile(<< >>, "full", "compact")}}

ReaderFiles == {[exists |-> FALSE]} \cup {[exists |-> TRUE, bytes |-> t] : t \in ReaderTexts}

\* What convertToSingleCSV prints after ConvertSessionsToCSV returned err.
MsgCanceled == "Operation was canceled by the user."
MsgSaved == "CSV output saved to " \o "output.csv" \o "\n"
MsgFailed(err) == "Failed to convert sessions to CSV: " \o err \o "\n"

(***************************************************************************)
(* The command line: what the user types and what the program prints       *)
(***************************************************************************)
ErrEOF == "EOF"
ErrRead == "read /dev/stdin: input/output error"
ErrStat == "stat: permission denied"
ErrWriteFile == "open: permission denied"
ErrRepair == "repair failed"

\* A line of input is the sequence of its runs of white space and of other
\* characters, the line feed that ends it included.
IsSpace(c) == c \in {" ", "\t", "\n", "\r", "\r\n"}

\* strings.TrimSpace: the text without its leading and trailing white space.
TrimSpace(chunks) ==
  LET first == {i \in 1..Len(chunks) : ~IsSpace(chunks[i])}
      RECURSIVE Concat(_, _)
      Concat(i, j) == IF i > j THEN "" ELSE chunks[i] \o Concat(i + 1, j)
  IN  IF first = {} THEN ""
      ELSE Concat(CHOOSE i \in first : \A k \in first : i <= k,
                  CHOOSE j \in first : \A k \in first : k <= j)

\* strings.ToLower, on the answers typed here.
ToLower(s) ==
  CASE s = "Yes" -> "yes"
    [] s = "YES" -> "yes"
    [] s = "No" -> "no"
    [] OTHER -> s

\* strconv.Atoi, on the selectors typed here.
Atoi(s) ==
  CASE s = "0" -> [err |-> FALSE, n |-> 0]
    [] s = "1" -> [err |-> FALSE, n |-> 1]
    [] s = "2" -> [err |-> FALSE, n |-> 2]
    [] s = "3" -> [err |-> FALSE, n |-> 3]
    [] s = "4" -> [err |-> FALSE, n |-> 4]
    [] s = "+4" -> [err |-> FALSE, n |-> 4]
    [] s = "5" -> [err |-> FALSE, n |-> 5]
    [] s = "-1" -> [err |-> FALSE, n |-> 0 - 1]
    [] OTHER -> [err |-> TRUE, n |-> 0]

Line(text) == << text, "\n" >>

\* The main package's names of the selectors of the CSV formats.
OutputFormatInline == FormatOptionInline
OutputFormatPerLine == FormatOptionPerLine
OutputFormatSeparateCSV == OutputFormatSeparateCSVFiles
OutputFormatJSONInCSV == FormatOptionJSON

PromptEnterJSONFilePath == "Enter the path to the JSON file: "
PromptRepairData == "Do you want to repair data? (yes/no): "
PromptSelectOutputFormat == "Select the output format:\n1) CSV\n2) Hugging Face Dataset\n"
PromptSelectCSVOutputFormat ==
  "Select the message output format:\n1) Inline Formatting\n2) One Message Per Line\n"
  \o "3) JSON String in CSV\n4) Separate Files for Sessions and Messages\n"
PromptEnterCSVFileName == "Enter the name of the CSV file to save: "
PromptEnterSessionsCSVFileName == "Enter the name of the sessions CSV file to save: "
PromptEnterMessagesCSVFileName == "Enter the name of the messages CSV file to save: "
PromptSaveOutputToFile == "Do you want to save the output to a file? (yes/no)\n"
PromptEnterFileName == "Enter the name of the dataset file to save: "
PromptOverwrite(fileName) == "File '" \o fileName \o "' already exists. Overwrite? (yes/no): "

\* The files the user names.  The paths of the input: an export with two
\* sessions, a JSON text that is not an export, a text that is not JSON, and
\* a path where there is no file.
ChatPath == "chat.json"
EmptyPath == "empty.json"
BrokenPath == "broken.json"
MissingPath == "missing.json"
JsonPaths == {ChatPath, EmptyPath, BrokenPath, MissingPath}
DatasetName == "dataset"
DatasetFile == "dataset.json"
RepairedPath(jsonFilePath) == "repaired_" \o jsonFilePath
FsNames == JsonPaths \cup {RepairedPath(p) : p \in JsonPaths} \cup {DatasetFile}

ChatExport == InputFile(<< "hasSP", "noSP" >>, "full", "compact")
OldText == [bad |-> TRUE]

\* The files before the program runs; stale: an earlier run left its
\* outputs.
InitialFiles(stale) ==
  [f \in FsNames |->
     CASE f = ChatPath -> [exists |-> TRUE, bytes |-> ChatExport]
       [] f = EmptyPath -> [exists |-> TRUE, bytes |-> Compact(JObj(<< >>))]
       [] f = BrokenPath -> [exists |-> TRUE, bytes |-> [bad |-> TRUE]]
       [] f = MissingPath -> [exists |-> FALSE]
       [] OTHER -> IF stale THEN [exists |-> TRUE, bytes |-> OldText] ELSE [exists |-> FALSE]]

\* What the user may type at each prompt, and what reader.ReadString('\n')
\* returns for it: a line, the end of the input (with the text before it), or
\* an error of the read.
Typed(at) ==
  CASE at = "path" -> {Line(p) : p \in JsonPaths}
    [] at = "repairQ" -> {<< " ", "Yes", " ", "\r\n" >>, Line("no"), << "\n" >>}
    [] at = "output" -> {Line("1"), Line("2"), Line("3")}
    [] at = "format" ->
         {Line("1"), Line("2"), Line("3"), << " ", "4", "\n" >>, Line("5"), Line("0"),
          Line("x"), << "\n" >>}
    [] at = "csvName" -> {Line(OutputFile)}
    [] at = "sessionsName" -> {Line(SessionsFile)}
    [] at = "messagesName" -> {<< " ", MessagesFile, "\n" >>}
    [] at = "saveQ" -> {Line("YES"), Line("no")}
    [] at = "datasetName" -> {Line(DatasetName), << "\n" >>}
    [] OTHER -> {Line("yes"), << "Yes", " ", "\n" >>, Line("no"), Line("y")}

ReadResults(at) ==
  {[input |-> l, err |-> ErrNil] : l \in Typed(at)}
  \cup {[input |-> << >>, err |-> ErrEOF], [input |-> << "yes" >>, err |-> ErrEOF],
        [input |-> << >>, err |-> ErrRead]}

\* The messages of the main package.
MsgReason == "\nReason: Operation canceled or end of input. Exiting program."
MsgExitGracefully ==
  "\n[GopherHelper] Exiting gracefully...\nReason: Operation canceled or end of input. Exiting program."
MsgErrorReadingInput(err) == "\n[GopherHelper] Error reading input: " \o err \o "\n"
MsgRepairError(err) == "Error: " \o err \o "\n"
MsgRepaired(newFilePath) == "Repaired JSON data has been saved to: " \o newFilePath \o "\n"
MsgReadError(err) == "Error reading or parsing the JSON file: " \o err \o "\n"
MsgInvalidOutputOption == "\nInvalid output option."
MsgInvalidFormatOption == "\nInvalid format option."
MsgInvalidCSVFormatOption == "Invalid CSV format option."
MsgCheckFailed(err) == "Failed to check file existence: " \o err \o "\n"
MsgDeclined == "Operation cancelled by the user."
MsgDeclinedSessions == "Operation cancelled by the user for sessions file."
MsgDeclinedMessages == "Operation cancelled by the user for messages file."
MsgCreateError(err) == "\nError creating CSV files: " \o err \o "\n"
MsgSessionsSaved(sessionsFileName) == "Sessions data saved to " \o sessionsFileName \o "\n"
MsgMessagesSaved(messagesFileName) == "Messages data saved to " \o messagesFileName \o "\n"
MsgNotSaved == "Save to file operation cancelled by the user."
MsgNoFileName == "No file name entered. Operation cancelled."
MsgWriteError(err) == "Error writing file: " \o err
MsgDatasetSaved(fileName) == "DATASET output saved to " \o fileName

\* promptForInput that returns no error when its select took ctx.Done().
promptForInputNoError(chosen, res) ==
  IF chosen = "ctx"
  THEN [input |-> "", err |-> ErrNil]
  ELSE [input |-> TrimSpace(res.input), err |-> res.err]

\* What promptForInput returns: chosen is the case its select took, res what
\* the reading goroutine sent.
promptForInput(chosen, res) ==
  IF chosen = "ctx"
  THEN [input |-> "", err |-> ErrCanceled]
  ELSE [input |-> TrimSpace(res.input), err |-> res.err]

\* handleInputError: the message and the exit code.
handleInputError(err) ==
  IF err = ErrCanceled \/ err = ErrEOF
  THEN [msg |-> MsgReason, code |-> 0]
  ELSE [msg |-> MsgErrorReadingInput(err), code |-> 1]

\* The error handling of processCSVOption after its prompt.
processCSVOptionError(err) ==
  IF err = ErrCanceled \/ err = ErrEOF
  THEN [msg |-> MsgExitGracefully, code |-> 0]
  ELSE [msg |-> MsgErrorReadingInput(err), code |-> 1]

\* ConfirmOverwrite that takes any answer beginning with a y for a yes.
ConfirmOverwriteAnswerLoose(answer) ==
  IF answer.err # ErrNil
  THEN [overwrite |-> FALSE, err |-> answer.err]
  ELSE [overwrite |-> ToLower(answer.input) \in {"yes", "y"}, err |-> ErrNil]

\* ConfirmOverwrite after its promptForInput returned answer.
ConfirmOverwriteAnswer(answer) ==
  IF answer.err # ErrNil
  THEN [overwrite |-> FALSE, err |-> answer.err]
  ELSE [overwrite |-> ToLower(answer.input) = "yes", err |-> ErrNil]

\* ConfirmOverwrite before it prompts: found is what rfs.FileExists
\* returned.  It returns, or it goes on to ask.
ConfirmOverwriteCheck(found) ==
  IF found.err # ErrNil THEN [asks |-> FALSE, overwrite |-> FALSE, err |-> found.err]
  ELSE IF ~found.exists THEN [asks |-> FALSE, overwrite |-> TRUE, err |-> ErrNil]
  ELSE [asks |-> TRUE, overwrite |-> FALSE, err |-> ErrNil]

\* executeCSVConversion that takes every selector up to 4 as valid.
ValidCSVFormatUpTo(formatOption) == formatOption <= OutputFormatSeparateCSV

\* The valid selectors of executeCSVConversion.
ValidCSVFormat(formatOption) ==
  ~(formatOption # OutputFormatInline /\ formatOption # OutputFormatPerLine
    /\ formatOption # OutputFormatSeparateCSV /\ formatOption # OutputFormatJSONInCSV)

(***************************************************************************)
(* State                                                                   *)
(***************************************************************************)
VARIABLES
  oldDataBytes,   \* the text handed to the first RepairSessionData
  repaired,       \* what the first RepairSessionData returned
  repairedAgain,  \* what RepairSessionData returned for its own output
  rpc,            \* "start", "repaired", "again"; "off" when no repair runs
  op,             \* the exporter function called: "convert", "separate", "dataset"; "off"
  sessions,       \* its sessions argument
  formatOption,   \* the formatOption argument of ConvertSessionsToCSV
  ctxDone,        \* the context passed to ConvertSessionsToCSV is cancelled
  disk,           \* the files: whether each exists and the rows it holds
  diskBefore,     \* the files as they were before the call
  buffered,       \* per file, the rows its csv.Writer holds and has not flushed
  pc,             \* where the exporter function is
  idx,            \* the index of the next session of the loop of ConvertSessionsToCSV
  ret,            \* the error the exporter function returned, once pc = "done"
  dataset,        \* what ExtractToDataset returned
  printed,        \* what convertToSingleCSV printed after ConvertSessionsToCSV
  jsonFile,       \* the file ReadJSONFromFile is called on
  readResult,     \* what ReadJSONFromFile returned
  readRepaired,   \* what ReadJSONFromFile returned for the file the repair wrote
  cli,            \* where the main package is: the prompt it is at, "export", "exit"; "off"
  rd,             \* the goroutine of promptForInput: "idle", "reading", or what it read
  sel,            \* the select of promptForInput: "idle", "enter", "parked", "ctx", "chan"
  got,            \* what the last promptForInput returned
  confirms,       \* the calls of ConfirmOverwrite so far: file, what was found, what it returned
  fsFiles,        \* the JSON files: whether each exists and the bytes it holds
  jsonFilePath,   \* the path the user entered
  fileNames,      \* the names of the output files the user entered
  out,            \* what the main package printed
  exitCode,       \* the exit code of the process; -1 while it runs
  upc,            \* where UpdateApplication is; "off" when no update runs
  release,        \* the latest release of the repository on GitHub
  fetched,        \* what getLatestRelease returned
  assetURL,       \* what findMatchingAsset returned
  tempFile,       \* the temporary file of downloadAsset
  binary,         \* the executable on disk
  restarted,      \* a new process of the executable was started
  uret            \* what UpdateApplication returned

repairVars == << oldDataBytes, repaired, repairedAgain, rpc >>

csvVars ==
  << op, sessions, formatOption, ctxDone, disk, diskBefore, buffered, pc, idx, ret, dataset, printed >>

readVars == << jsonFile, readResult, readRepaired >>

cliVars ==
  << cli, rd, sel, got, confirms, fsFiles, jsonFilePath, fileNames, out, exitCode >>

updVars == << upc, release, fetched, assetURL, tempFile, binary, restarted, uret >>

vars == << repairVars, csvVars, readVars, cliVars, updVars >>

\* The variables no step of ConvertSessionsToCSV or CreateSeparateCSVFiles
\* writes.
others == << repairVars, readVars, dataset, printed, cliVars, updVars >>

NotRead == [err |-> "not called"]
NoDataset == [err |-> "not called"]

NoResult == [err |-> TRUE]

NoBuffers == [f \in FileNames |-> << >>]

RepairOff ==
  /\ oldDataBytes = [bad |-> TRUE]
  /\ repaired = NoResult
  /\ repairedAgain = NoResult
  /\ rpc = "off"

CSVOff ==
  /\ op = "off"
  /\ sessions = << >>
  /\ formatOption = 0
  /\ ctxDone = FALSE
  /\ disk = [f \in FileNames |-> NoFile]
  /\ diskBefore = disk
  /\ buffered = NoBuffers
  /\ pc = "off"
  /\ idx = 0
  /\ ret = ErrNil
  /\ dataset = NoDataset
  /\ printed = << >>

ReadOff ==
  /\ jsonFile = [exists |-> FALSE]
  /\ readResult = NotRead
  /\ readRepaired = NotRead

NotReturned == [input |-> "", err |-> "not called"]
Idle == [state |-> "idle"]
Reading == [state |-> "reading"]

CLIOff ==
  /\ cli = "off"
  /\ rd = Idle
  /\ sel = "idle"
  /\ got = NotReturned
  /\ confirms = << >>
  /\ fsFiles = InitialFiles(FALSE)
  /\ jsonFilePath = ""
  /\ fileNames = << >>
  /\ out = << >>
  /\ exitCode = 0 - 1

NoRelease == [TagName |-> "", Assets |-> << >>]
NotFetched == [err |-> "not called"]
NoTempFile == [exists |-> FALSE]

UpdateOff ==
  /\ upc = "off"
  /\ release = NoRelease
  /\ fetched = NotFetched
  /\ assetURL = ""
  /\ tempFile = NoTempFile
  /\ binary = "off"
  /\ restarted = FALSE
  /\ uret = "off"

(***************************************************************************)
(* The repair transform, applied once and then to its own output           *)
(***************************************************************************)
InitRepair ==
  /\ oldDataBytes \in InputFiles
  /\ repaired = NoResult
  /\ repairedAgain = NoResult
  /\ rpc = "start"
  /\ CSVOff
  /\ ReadOff
  /\ CLIOff
  /\ UpdateOff

\* repairJSONData's call of RepairSessionData on the bytes of the input file.
Repair ==
  /\ rpc = "start"
  /\ repaired' = RepairSessionData(oldDataBytes)
  /\ rpc' = "repaired"
  /\ UNCHANGED << oldDataBytes, repairedAgain, csvVars, readVars, cliVars, updVars >>

\* RepairSessionData on the bytes a successful repair produced.
RepairAgain ==
  /\ rpc = "repaired"
  /\ ~repaired.err
  /\ repairedAgain' = RepairSessionData(repaired.bytes)
  /\ rpc' = "again"
  /\ UNCHANGED << oldDataBytes, repaired, csvVars, readVars, cliVars, updVars >>

NextRepair == Repair \/ RepairAgain

SpecRepair == InitRepair /\ [][NextRepair]_vars

(***************************************************************************)
(* ConvertSessionsToCSV and CreateSeparateCSVFiles                         *)
(*                                                                         *)
(* os.Create may fail.  A csv.Writer buffers rows: they reach the file     *)
(* when the buffer fills (BufferFull, at any time, the sizes in bytes not  *)
(* being modelled) and when the writer is flushed.  Of the writes to a     *)
(* file that was created, those to the messages file of                    *)
(* CreateSeparateCSVFiles may fail; the others do not.                     *)
(***************************************************************************)
InitCSV ==
  /\ RepairOff
  /\ ReadOff
  /\ CLIOff
  /\ UpdateOff
  /\ \/ op = "convert" /\ formatOption \in FormatOptions
     \/ op = "separate" /\ formatOption = OutputFormatSeparateCSVFiles
     \/ op = "dataset" /\ formatOption = 0
  /\ sessions \in SessionLists
  /\ ctxDone = FALSE
  /\ disk \in {[f \in FileNames |-> NoFile], [f \in FileNames |-> StaleFile]}
  /\ diskBefore = disk
  /\ buffered = NoBuffers
  /\ pc = "create"
  /\ idx = 0
  /\ ret = ErrNil
  /\ dataset = NoDataset
  /\ printed = << >>

\* os.Create: the file exists and is empty.
Created(d, f) == [d EXCEPT ![f] = [exists |-> TRUE, rows |-> << >>]]

\* csv.Writer.Flush of the writers of the files fs.
Flushed(d, b, fs) == [f \in FileNames |-> IF f \in fs THEN [d[f] EXCEPT !.rows = @ \o b[f]] ELSE d[f]]
Emptied(b, fs) == [f \in FileNames |-> IF f \in fs THEN << >> ELSE b[f]]

\* A return of ConvertSessionsToCSV after its two defer statements: the
\* deferred csvWriter.Flush, then the deferred outputFile.Close.
ConvertReturns(err) ==
  /\ disk' = Flushed(disk, buffered, {OutputFile})
  /\ buffered' = Emptied(buffered, {OutputFile})
  /\ ret' = err
  /\ pc' = "done"

\* outputFile, err := os.Create(outputFilePath), and the return if it failed.
ConvertCreate ==
  /\ op = "convert" /\ pc = "create"
  /\ \/ /\ disk' = Created(disk, OutputFile)
        /\ pc' = "headers"
        /\ UNCHANGED ret
     \/ /\ ret' = ErrCreate
        /\ pc' = "done"
        /\ UNCHANGED disk
  /\ UNCHANGED << others, op, sessions, formatOption, ctxDone, diskBefore, buffered, idx >>

\* getCSVHeaders, WriteHeaders and getWriteFunction.
ConvertHeaders ==
  /\ op = "convert" /\ pc = "headers"
  /\ LET h == getCSVHeaders(formatOption)
     IN  IF h.err \/ getWriteFunction(formatOption).err
         THEN ConvertReturns(ErrInvalidFormat) /\ UNCHANGED idx
         ELSE /\ buffered' = [buffered EXCEPT ![OutputFile] = @ \o << HeaderRow(h.headers) >>]
              /\ pc' = "loop"
              /\ idx' = 1
              /\ UNCHANGED << disk, ret >>
  /\ UNCHANGED << others, op, sessions, formatOption, ctxDone, diskBefore >>

\* checkContextCancellation: ctx.Err() if ctx is done.
checkContextCancellation(done) == IF done THEN ErrCanceled ELSE ErrNil

\* An iteration that writes the rows of the session and then looks at the
\* context.
ConvertSessionCheckAfter ==
  /\ op = "convert" /\ pc = "loop" /\ idx <= Len(sessions)
  /\ IF checkContextCancellation(ctxDone) # ErrNil
     THEN /\ disk' = Flushed(disk, [buffered EXCEPT ![OutputFile] =
                         @ \o writeFunc(getWriteFunction(formatOption).fn, sessions[idx])],
                         {OutputFile})
          /\ buffered' = Emptied(buffered, {OutputFile})
          /\ ret' = checkContextCancellation(ctxDone)
          /\ pc' = "done"
          /\ UNCHANGED idx
     ELSE /\ buffered' = [buffered EXCEPT ![OutputFile] =
                            @ \o writeFunc(getWriteFunction(formatOption).fn, sessions[idx])]
          /\ idx' = idx + 1
          /\ UNCHANGED << disk, ret, pc >>
  /\ UNCHANGED << others, op, sessions, formatOption, ctxDone, diskBefore >>

\* One iteration of the loop over the sessions.
ConvertSession ==
  /\ op = "convert" /\ pc = "loop" /\ idx <= Len(sessions)
  /\ IF checkContextCancellation(ctxDone) # ErrNil
     THEN ConvertReturns(checkContextCancellation(ctxDone)) /\ UNCHANGED idx
     ELSE /\ buffered' = [buffered EXCEPT ![OutputFile] =
                            @ \o writeFunc(getWriteFunction(formatOption).fn, sessions[idx])]
          /\ idx' = idx + 1
          /\ UNCHANGED << disk, ret, pc >>
  /\ UNCHANGED << others, op, sessions, formatOption, ctxDone, diskBefore >>

\* return nil after the last session.
ConvertReturn ==
  /\ op = "convert" /\ pc = "loop" /\ idx > Len(sessions)
  /\ ConvertReturns(ErrNil)
  /\ UNCHANGED << others, op, sessions, formatOption, ctxDone, diskBefore, idx >>

\* The signal handler cancels the context: while the exporter runs, or
\* while the main package is at a prompt.  A select that waits takes the
\* case of ctx.Done().
Cancel ==
  /\ (pc \notin {"off", "done"} \/ cli \notin {"off", "exit"}) /\ ~ctxDone
  /\ ctxDone' = TRUE
  /\ sel' = IF sel = "parked" THEN "ctx" ELSE sel
  /\ UNCHANGED << repairVars, readVars, dataset, printed, updVars, op, sessions, formatOption,
                  disk, diskBefore, buffered, pc, idx, ret >>
  /\ UNCHANGED << cli, rd, got, confirms, fsFiles, jsonFilePath, fileNames, out, exitCode >>

\* The buffer of a csv.Writer fills and is written to its file.
BufferFull ==
  /\ pc \notin {"off", "done"}
  /\ \E f \in FileNames :
       /\ buffered[f] # << >>
       /\ disk' = Flushed(disk, buffered, {f})
       /\ buffered' = Emptied(buffered, {f})
  /\ UNCHANGED << others, op, sessions, formatOption, ctxDone, diskBefore, pc, idx, ret >>

\* initializeCSVFile: os.Create and WriteHeaders.
initializeCSVFile(fileName, headers) ==
  /\ disk' = Created(disk, fileName)
  /\ buffered' = [buffered EXCEPT ![fileName] = << HeaderRow(headers) >>]

\* closeCSVWriter of the files fs, deferred by CreateSeparateCSVFiles.
closeCSVWriter(fs) ==
  /\ disk' = Flushed(disk, buffered, fs)
  /\ buffered' = Emptied(buffered, fs)

\* The sessions file is created and gets its header, or the call returns.
SeparateInitSessions ==
  /\ op = "separate" /\ pc = "create"
  /\ \/ /\ initializeCSVFile(SessionsFile, << "id", "topic", "memoryPrompt" >>)
        /\ pc' = "writeSessions"
        /\ UNCHANGED ret
     \/ /\ ret' = ErrCreate
        /\ pc' = "done"
        /\ UNCHANGED << disk, buffered >>
  /\ UNCHANGED << others, op, sessions, formatOption, ctxDone, diskBefore, idx >>

\* WriteSessionData that gives a session with a nil message list an empty
\* one, in the slice it was handed.
SeparateWriteSessionsInPlace ==
  /\ op = "separate" /\ pc = "writeSessions"
  /\ buffered' = [buffered EXCEPT ![SessionsFile] = @ \o WriteSessionData(sessions)]
  /\ sessions' = [i \in 1..Len(sessions) |->
                    IF sessions[i].Messages = GNil
                    THEN [sessions[i] EXCEPT !.Messages = GSome(<< >>)]
                    ELSE sessions[i]]
  /\ pc' = "initMessages"
  /\ UNCHANGED << others, op, formatOption, ctxDone, disk, diskBefore, idx, ret >>

\* WriteSessionData(sessionsWriter, sessions).
SeparateWriteSessions ==
  /\ op = "separate" /\ pc = "writeSessions"
  /\ buffered' = [buffered EXCEPT ![SessionsFile] = @ \o WriteSessionData(sessions)]
  /\ pc' = "initMessages"
  /\ UNCHANGED << others, op, sessions, formatOption, ctxDone, disk, diskBefore, idx, ret >>

\* SeparateInitMessages that returns without the deferred close of the
\* sessions writer when the messages file cannot be created.
SeparateInitMessagesNoClose ==
  /\ op = "separate" /\ pc = "initMessages"
  /\ \/ /\ initializeCSVFile(MessagesFile,
                             << "session_id", "message_id", "date", "role", "content", "memoryPrompt" >>)
        /\ pc' = "writeMessages"
        /\ UNCHANGED ret
     \/ /\ buffered' = NoBuffers
        /\ ret' = ErrCreateMessages
        /\ pc' = "done"
        /\ UNCHANGED disk
  /\ UNCHANGED << others, op, sessions, formatOption, ctxDone, diskBefore, idx >>

\* The messages file is created and gets its header, or the call returns
\* through the deferred close of the sessions writer.
SeparateInitMessages ==
  /\ op = "separate" /\ pc = "initMessages"
  /\ \/ /\ initializeCSVFile(MessagesFile,
                             << "session_id", "message_id", "date", "role", "content", "memoryPrompt" >>)
        /\ pc' = "writeMessages"
        /\ UNCHANGED ret
     \/ /\ closeCSVWriter({SessionsFile})
        /\ ret' = ErrCreateMessages
        /\ pc' = "done"
  /\ UNCHANGED << others, op, sessions, formatOption, ctxDone, diskBefore, idx >>

\* A return of CreateSeparateCSVFiles after a write to the messages file
\* failed: k of the rows its writer held reached the file; the deferred
\* closeCSVWriter of the messages writer finds the error of the writer and
\* makes it the error returned; the deferred closeCSVWriter of the sessions
\* writer flushes the sessions rows.
MessagesWriteFailed(pending, k) ==
  /\ disk' = [Flushed(disk, buffered, {SessionsFile})
                EXCEPT ![MessagesFile].rows = @ \o SubSeq(pending, 1, k)]
  /\ buffered' = NoBuffers
  /\ ret' = ErrFlush
  /\ pc' = "done"

\* WriteMessageData that leaves the memoryPrompt out of its rows.
SeparateWriteMessagesNoPrompt ==
  /\ op = "separate" /\ pc = "writeMessages"
  /\ buffered' = [buffered EXCEPT ![MessagesFile] =
                     @ \o [i \in 1..Len(WriteMessageData(sessions)) |->
                             DataRow(SubSeq(WriteMessageData(sessions)[i].cells, 1, 5))]]
  /\ pc' = "return"
  /\ UNCHANGED << disk, ret >>
  /\ UNCHANGED << others, op, sessions, formatOption, ctxDone, diskBefore, idx >>

\* WriteMessageData(messagesWriter, sessions), or the return when a write
\* to the messages file fails.
SeparateWriteMessages ==
  /\ op = "separate" /\ pc = "writeMessages"
  /\ \/ /\ buffered' = [buffered EXCEPT ![MessagesFile] = @ \o WriteMessageData(sessions)]
        /\ pc' = "return"
        /\ UNCHANGED << disk, ret >>
     \/ LET pending == buffered[MessagesFile] \o WriteMessageData(sessions)
        IN  \E k \in 0..(Len(pending) - 1) : MessagesWriteFailed(pending, k)
  /\ UNCHANGED << others, op, sessions, formatOption, ctxDone, diskBefore, idx >>

\* return nil: the deferred closes of the messages writer and of the
\* sessions writer; the flush of the messages writer may fail.
SeparateReturn ==
  /\ op = "separate" /\ pc = "return"
  /\ \/ /\ closeCSVWriter({MessagesFile, SessionsFile})
        /\ ret' = ErrNil
        /\ pc' = "done"
     \/ \E k \in 0..(Len(buffered[MessagesFile]) - 1) :
          MessagesWriteFailed(buffered[MessagesFile], k)
  /\ UNCHANGED << others, op, sessions, formatOption, ctxDone, diskBefore, idx >>

\* convertToSingleCSV that reports the file as saved whatever
\* ConvertSessionsToCSV returned.
ReportConversionSaved ==
  /\ op = "convert" /\ pc = "done" /\ printed = << >>
  /\ printed' = << MsgSaved >>
  /\ UNCHANGED << repairVars, readVars, cliVars, updVars, dataset, op, sessions, formatOption, ctxDone, disk,
                  diskBefore, buffered, pc, idx, ret >>

\* convertToSingleCSV after ConvertSessionsToCSV returned err.
ReportConversion ==
  /\ op = "convert" /\ pc = "done" /\ printed = << >>
  /\ IF ret # ErrNil
     THEN IF ret = ErrCanceled
          THEN printed' = << MsgCanceled >>
          ELSE printed' = << MsgFailed(ret) >>
     ELSE printed' = << MsgSaved >>
  /\ UNCHANGED << repairVars, readVars, cliVars, updVars, dataset, op, sessions, formatOption, ctxDone, disk,
                  diskBefore, buffered, pc, idx, ret >>

\* processDatasetOption's call of ExtractToDataset(sessions).
ExtractDataset ==
  /\ op = "dataset" /\ pc = "create"
  /\ dataset' = ExtractToDataset(sessions)
  /\ ret' = ExtractToDataset(sessions).err
  /\ pc' = "done"
  /\ UNCHANGED << repairVars, readVars, cliVars, updVars, printed, op, sessions, formatOption, ctxDone, disk,
                  diskBefore, buffered, idx >>

NextCSV ==
  \/ ConvertCreate \/ ConvertHeaders \/ ConvertSession \/ ConvertReturn
  \/ Cancel \/ BufferFull
  \/ SeparateInitSessions \/ SeparateWriteSessions \/ SeparateInitMessages
  \/ SeparateWriteMessages \/ SeparateReturn
  \/ ReportConversion \/ ExtractDataset

SpecCSV == InitCSV /\ [][NextCSV]_vars

(***************************************************************************)
(* ReadJSONFromFile, called once on a file                                 *)
(***************************************************************************)
InitRead ==
  /\ RepairOff
  /\ CSVOff
  /\ CLIOff
  /\ UpdateOff
  /\ jsonFile \in ReaderFiles
  /\ readResult = NotRead
  /\ readRepaired = NotRead

\* store, err := exporter.ReadJSONFromFile(jsonFilePath)
ReadFile ==
  /\ rpc \in {"off", "file"} /\ pc = "off" /\ readResult = NotRead
  /\ readResult' = ReadJSONFromFile(jsonFile)
  /\ UNCHANGED << repairVars, csvVars, cliVars, updVars, jsonFile, readRepaired >>

\* repairdata.RepairSessionData on the bytes of the file.
RepairFile ==
  /\ rpc = "off" /\ pc = "off" /\ jsonFile.exists
  /\ repaired' = RepairSessionData(jsonFile.bytes)
  /\ rpc' = "file"
  /\ UNCHANGED << oldDataBytes, repairedAgain, csvVars, cliVars, updVars, readVars >>

\* exporter.ReadJSONFromFile on the file the repair wrote.
ReadRepaired ==
  /\ rpc = "file" /\ pc = "off" /\ ~repaired.err /\ readRepaired = NotRead
  /\ readRepaired' = ReadJSONFromFile([exists |-> TRUE, bytes |-> repaired.bytes])
  /\ UNCHANGED << repairVars, csvVars, cliVars, updVars, jsonFile, readResult >>

NextRead == ReadFile \/ RepairFile \/ ReadRepaired

SpecRead == InitRead /\ [][NextRead]_vars

(***************************************************************************)
(* The main package: prompts, confirmations and the calls of the exporter  *)
(*                                                                         *)
(* promptForInput starts a goroutine that reads a line and sends it on an  *)
(* unbuffered channel, and selects between that channel and ctx.Done().    *)
(* A select that finds both ready takes either; one that finds neither     *)
(* waits and takes the first that becomes ready.  The names of the output  *)
(* files the user types are those of the files of the exporter above.      *)
(***************************************************************************)
\* The variables no step of the main package writes.
aside == << repairVars, readVars, updVars >>

InitCLI ==
  /\ RepairOff
  /\ ReadOff
  /\ UpdateOff
  /\ op = "off"
  /\ sessions = << >>
  /\ formatOption = 0
  /\ ctxDone = FALSE
  /\ disk \in {[f \in FileNames |-> NoFile], [f \in FileNames |-> StaleFile],
               [f \in FileNames |-> IF f = SessionsFile THEN StaleFile ELSE NoFile]}
  /\ diskBefore = disk
  /\ buffered = NoBuffers
  /\ pc = "off"
  /\ idx = 0
  /\ ret = ErrNil
  /\ dataset = NoDataset
  /\ printed = << >>
  /\ cli = "path"
  /\ rd = Reading
  /\ sel = "enter"
  /\ got = NotReturned
  /\ confirms = << >>
  /\ fsFiles = InitialFiles(disk[OutputFile].exists)
  /\ jsonFilePath = ""
  /\ fileNames = << >>
  /\ out = << PromptEnterJSONFilePath >>
  /\ exitCode = 0 - 1

AtPrompt == cli \notin {"off", "export", "exit"}

\* The goroutine of promptForInput: reader.ReadString('\n') returns and the
\* result is offered on resultChan; a select that waits takes it.
ReaderReadString ==
  /\ AtPrompt /\ rd.state = "reading"
  /\ \E res \in ReadResults(cli) :
       rd' = [state |-> "read", input |-> res.input, err |-> res.err, late |-> ctxDone]
  /\ sel' = IF sel = "parked" THEN "chan" ELSE sel
  /\ UNCHANGED << aside, csvVars, cli, got, confirms, fsFiles, jsonFilePath, fileNames, out, exitCode >>

\* The select of promptForInput is reached.
Select ==
  /\ AtPrompt /\ sel = "enter"
  /\ IF ~ctxDone /\ rd.state = "reading"
     THEN sel' = "parked"
     ELSE sel' \in {c \in {"ctx", "chan"} : (c = "ctx" /\ ctxDone) \/ (c = "chan" /\ rd.state = "read")}
  /\ UNCHANGED << aside, csvVars, cli, rd, got, confirms, fsFiles, jsonFilePath, fileNames, out, exitCode >>

\* promptForInput has returned.
Returned == sel \in {"ctx", "chan"}

\* The process ends with the exit code: os.Exit, or the return of main.
Ends(code, msgs) ==
  /\ cli' = "exit"
  /\ exitCode' = code
  /\ out' = out \o msgs
  /\ sel' = "idle"
  /\ rd' = Idle

\* The next promptForInput is called, after msgs and the prompt were printed.
Prompts(at, msgs) ==
  /\ cli' = at
  /\ exitCode' = exitCode
  /\ out' = out \o msgs
  /\ sel' = "enter"
  /\ rd' = Reading

\* A function of the exporter is called.
Calls(fn) ==
  /\ cli' = "export"
  /\ exitCode' = exitCode
  /\ out' = out
  /\ sel' = "idle"
  /\ rd' = Idle
  /\ op' = fn
  /\ pc' = "create"
  /\ diskBefore' = disk
  /\ UNCHANGED << sessions, formatOption, ctxDone, disk, buffered, idx, ret, dataset, printed >>

\* rfs.FileExists(name): whether the file is there, or an error of Stat that
\* is not its absence.
FileExists(name) ==
  {[exists |-> (IF name \in FileNames THEN disk[name].exists ELSE fsFiles[name].exists),
    err |-> ErrNil],
   [exists |-> FALSE, err |-> ErrStat]}

\* A call of ConfirmOverwrite that returned: the file, what FileExists found,
\* whether it asked, and then what the goroutine read, the case the select
\* took and what promptForInput returned, and what it returned itself.
Confirmed(fileName, found, asked, answer, result) ==
  confirms' = Append(confirms, [fileName |-> fileName, found |-> found, asked |-> asked,
                                read |-> (IF asked THEN rd ELSE Idle),
                                chosen |-> (IF asked THEN sel ELSE "idle"),
                                answer |-> answer, overwrite |-> result.overwrite,
                                err |-> result.err])

\* main after the prompt for the path of the JSON file.
MainPath ==
  /\ cli = "path" /\ Returned
  /\ LET r == promptForInput(sel, rd)
     IN  /\ got' = r
         /\ IF r.err # ErrNil
            THEN /\ Ends(handleInputError(r.err).code, << handleInputError(r.err).msg >>)
                 /\ UNCHANGED jsonFilePath
            ELSE /\ jsonFilePath' = r.input
                 /\ Prompts("repairQ", << PromptRepairData >>)
  /\ UNCHANGED << aside, csvVars, confirms, fsFiles, fileNames >>

\* rfs.WriteFile(name, data, 0644): the file holds the data; or it fails and
\* the file is as it was, or is left truncated.
WriteFile(name, data) ==
  {[err |-> ErrNil, files |-> [fsFiles EXCEPT ![name] = [exists |-> TRUE, bytes |-> data]]],
   [err |-> ErrWriteFile, files |-> fsFiles],
   [err |-> ErrWriteFile, files |-> [fsFiles EXCEPT ![name] = [exists |-> TRUE, bytes |-> [bad |-> TRUE]]]]}

\* repairJSONData that writes the repaired bytes over the input file.
repairJSONDataInPlace(path) ==
  IF ~fsFiles[path].exists
  THEN {[path |-> "", err |-> ErrOpen, files |-> fsFiles]}
  ELSE LET repairedData == RepairSessionData(fsFiles[path].bytes)
       IN  IF repairedData.err
           THEN {[path |-> "", err |-> ErrRepair, files |-> fsFiles]}
           ELSE {[path |-> (IF w.err # ErrNil THEN "" ELSE path), err |-> w.err,
                  files |-> w.files] : w \in WriteFile(path, repairedData.bytes)}

\* repairJSONData(rfs, ctx, jsonFilePath): the path and the error it returns,
\* and the files it leaves.
repairJSONData(path) ==
  IF ~fsFiles[path].exists
  THEN {[path |-> "", err |-> ErrOpen, files |-> fsFiles]}
  ELSE LET repairedData == RepairSessionData(fsFiles[path].bytes)
       IN  IF repairedData.err
           THEN {[path |-> "", err |-> ErrRepair, files |-> fsFiles]}
           ELSE {[path |-> (IF w.err # ErrNil THEN "" ELSE RepairedPath(path)), err |-> w.err,
                  files |-> w.files] : w \in WriteFile(RepairedPath(path), repairedData.bytes)}

\* main after the prompt that offers the repair: the repair and the exit, or
\* ReadJSONFromFile and the prompt for the output format.
MainRepair ==
  /\ cli = "repairQ" /\ Returned
  /\ LET r == promptForInput(sel, rd)
     IN  /\ got' = r
         /\ IF r.err # ErrNil
            THEN /\ Ends(handleInputError(r.err).code, << handleInputError(r.err).msg >>)
                 /\ UNCHANGED << fsFiles, sessions >>
            ELSE IF ToLower(r.input) = "yes"
            THEN /\ \E rep \in repairJSONData(jsonFilePath) :
                      /\ fsFiles' = rep.files
                      /\ IF rep.err # ErrNil
                         THEN Ends(1, << MsgRepairError(rep.err) >>)
                         ELSE Ends(0, << MsgRepaired(rep.path) >>)
                 /\ UNCHANGED sessions
            ELSE LET store == ReadJSONFromFile(fsFiles[jsonFilePath])
                 IN  /\ IF store.err # ErrNil
                        THEN /\ Ends(1, << MsgReadError(store.err) >>)
                             /\ UNCHANGED sessions
                        ELSE /\ sessions' = store.store.ChatNextWebStore.Sessions.v
                             /\ Prompts("output", << PromptSelectOutputFormat >>)
                     /\ UNCHANGED fsFiles
  /\ UNCHANGED << aside, confirms, jsonFilePath, fileNames >>
  /\ UNCHANGED << op, formatOption, ctxDone, disk, diskBefore, buffered, pc, idx, ret, dataset, printed >>

\* main after the prompt for the output format, and processOutputOption.
ProcessOutputOption ==
  /\ cli = "output" /\ Returned
  /\ LET r == promptForInput(sel, rd)
     IN  /\ got' = r
         /\ IF r.err # ErrNil
            THEN /\ Ends(handleInputError(r.err).code, << handleInputError(r.err).msg >>)
                 /\ UNCHANGED csvVars
            ELSE IF r.input = "1"
            THEN /\ Prompts("format", << PromptSelectCSVOutputFormat >>)
                 /\ UNCHANGED csvVars
            ELSE IF r.input = "2"
            THEN Calls("dataset")
            ELSE /\ Ends(0, << MsgInvalidOutputOption >>)
                 /\ UNCHANGED csvVars
  /\ UNCHANGED << aside, confirms, fsFiles, jsonFilePath, fileNames >>

\* The switch of an earlier revision: 3 for the separate files.
executeCSVConversionCaseOld(selector) ==
  CASE selector \in {OutputFormatInline, OutputFormatPerLine, OutputFormatSeparateCSV} ->
         "convertToSingleCSV"
    [] selector = OutputFormatJSONInCSV -> "createSeparateCSVFiles"
    [] OTHER -> "invalid"

\* The switch of executeCSVConversion, and with it the prompt for the name
\* of a single CSV file that precedes it.
executeCSVConversionCase(selector) ==
  CASE selector \in {OutputFormatInline, OutputFormatPerLine, OutputFormatJSONInCSV} ->
         "convertToSingleCSV"
    [] selector = OutputFormatSeparateCSV -> "createSeparateCSVFiles"
    [] OTHER -> "invalid"

\* processCSVOption after its prompt, and executeCSVConversion up to its
\* prompt for a file name.
ProcessCSVOption ==
  /\ cli = "format" /\ Returned
  /\ LET r == promptForInput(sel, rd)
         n == Atoi(r.input)
     IN  /\ got' = r
         /\ IF r.err # ErrNil
            THEN /\ Ends(processCSVOptionError(r.err).code, << processCSVOptionError(r.err).msg >>)
                 /\ UNCHANGED formatOption
            ELSE IF n.err
            THEN /\ Ends(0, << MsgInvalidFormatOption >>)
                 /\ UNCHANGED formatOption
            ELSE IF ~ValidCSVFormat(n.n)
            THEN /\ Ends(0, << MsgInvalidCSVFormatOption >>)
                 /\ UNCHANGED formatOption
            ELSE IF executeCSVConversionCase(n.n) = "convertToSingleCSV"
            THEN /\ formatOption' = n.n
                 /\ Prompts("csvName", << PromptEnterCSVFileName >>)
            ELSE /\ formatOption' = n.n
                 /\ Prompts("sessionsName", << PromptEnterSessionsCSVFileName >>)
  /\ UNCHANGED << aside, confirms, fsFiles, jsonFilePath, fileNames >>
  /\ UNCHANGED << op, sessions, ctxDone, disk, diskBefore, buffered, pc, idx, ret, dataset, printed >>

\* convertToSingleCSV once ConfirmOverwrite returned c.
convertToSingleCSV(c) ==
  IF c.err # ErrNil
  THEN Ends(0, << MsgCheckFailed(c.err) >>) /\ UNCHANGED csvVars
  ELSE IF ~c.overwrite
  THEN Ends(0, << MsgDeclined >>) /\ UNCHANGED csvVars
  ELSE Calls("convert")

\* executeCSVConversion after the prompt for the name of the CSV file, and
\* convertToSingleCSV up to the question of ConfirmOverwrite.
ExecuteCSVConversion ==
  /\ cli = "csvName" /\ Returned
  /\ LET r == promptForInput(sel, rd)
     IN  /\ got' = r
         /\ IF r.err # ErrNil
            THEN /\ Ends(handleInputError(r.err).code, << handleInputError(r.err).msg >>)
                 /\ UNCHANGED << csvVars, confirms, fileNames >>
            ELSE /\ fileNames' = << r.input >>
                 /\ \E found \in FileExists(r.input) :
                      LET c == ConfirmOverwriteCheck(found)
                      IN  IF c.asks
                          THEN /\ Prompts("confirmCSV", << PromptOverwrite(r.input) >>)
                               /\ UNCHANGED << csvVars, confirms >>
                          ELSE /\ Confirmed(r.input, found, FALSE, NotReturned, c)
                               /\ convertToSingleCSV(c)
  /\ UNCHANGED << aside, fsFiles, jsonFilePath >>

\* convertToSingleCSV after the question of ConfirmOverwrite was answered.
ConvertToSingleCSV ==
  /\ cli = "confirmCSV" /\ Returned
  /\ LET r == promptForInput(sel, rd)
         c == ConfirmOverwriteAnswer(r)
     IN  /\ got' = r
         /\ Confirmed(fileNames[1], [exists |-> TRUE, err |-> ErrNil], TRUE, r, c)
         /\ convertToSingleCSV(c)
  /\ UNCHANGED << aside, fsFiles, jsonFilePath, fileNames >>

\* main returns after convertToSingleCSV printed its report.
MainReturn ==
  /\ cli = "export" /\ op = "convert" /\ pc = "done" /\ printed # << >>
  /\ Ends(0, << >>)
  /\ UNCHANGED << aside, csvVars, got, confirms, fsFiles, jsonFilePath, fileNames >>

\* createSeparateCSVFiles once ConfirmOverwrite returned c for the sessions
\* file.
sessionsConfirmed(c) ==
  IF c.err # ErrNil
  THEN Ends(handleInputError(c.err).code, << handleInputError(c.err).msg >>)
  ELSE IF ~c.overwrite
  THEN Ends(0, << MsgDeclinedSessions >>)
  ELSE Prompts("messagesName", << PromptEnterMessagesCSVFileName >>)

\* createSeparateCSVFiles after the prompt for the name of the sessions file.
CreateSeparateSessionsName ==
  /\ cli = "sessionsName" /\ Returned
  /\ LET r == promptForInput(sel, rd)
     IN  /\ got' = r
         /\ IF r.err # ErrNil
            THEN /\ Ends(handleInputError(r.err).code, << handleInputError(r.err).msg >>)
                 /\ UNCHANGED << confirms, fileNames >>
            ELSE /\ fileNames' = << r.input >>
                 /\ \E found \in FileExists(r.input) :
                      LET c == ConfirmOverwriteCheck(found)
                      IN  IF c.asks
                          THEN /\ Prompts("confirmSessions", << PromptOverwrite(r.input) >>)
                               /\ UNCHANGED confirms
                          ELSE /\ Confirmed(r.input, found, FALSE, NotReturned, c)
                               /\ sessionsConfirmed(c)
  /\ UNCHANGED << aside, csvVars, fsFiles, jsonFilePath >>

\* createSeparateCSVFiles after the question about the sessions file.
CreateSeparateConfirmSessions ==
  /\ cli = "confirmSessions" /\ Returned
  /\ LET r == promptForInput(sel, rd)
         c == ConfirmOverwriteAnswer(r)
     IN  /\ got' = r
         /\ Confirmed(fileNames[1], [exists |-> TRUE, err |-> ErrNil], TRUE, r, c)
         /\ sessionsConfirmed(c)
  /\ UNCHANGED << aside, csvVars, fsFiles, jsonFilePath, fileNames >>

\* createSeparateCSVFiles that calls the exporter whatever ConfirmOverwrite
\* returned for the messages file.
messagesConfirmedAnyway(c) ==
  Calls("separate")

\* createSeparateCSVFiles once ConfirmOverwrite returned c for the messages
\* file: the call of exporter.CreateSeparateCSVFiles.
messagesConfirmed(c) ==
  IF c.err # ErrNil
  THEN Ends(handleInputError(c.err).code, << handleInputError(c.err).msg >>) /\ UNCHANGED csvVars
  ELSE IF ~c.overwrite
  THEN Ends(0, << MsgDeclinedMessages >>) /\ UNCHANGED csvVars
  ELSE Calls("separate")

\* createSeparateCSVFiles after the prompt for the name of the messages file.
CreateSeparateMessagesName ==
  /\ cli = "messagesName" /\ Returned
  /\ LET r == promptForInput(sel, rd)
     IN  /\ got' = r
         /\ IF r.err # ErrNil
            THEN /\ Ends(handleInputError(r.err).code, << handleInputError(r.err).msg >>)
                 /\ UNCHANGED << csvVars, confirms, fileNames >>
            ELSE /\ fileNames' = Append(fileNames, r.input)
                 /\ \E found \in FileExists(r.input) :
                      LET c == ConfirmOverwriteCheck(found)
                      IN  IF c.asks
                          THEN /\ Prompts("confirmMessages", << PromptOverwrite(r.input) >>)
                               /\ UNCHANGED << csvVars, confirms >>
                          ELSE /\ Confirmed(r.input, found, FALSE, NotReturned, c)
                               /\ messagesConfirmed(c)
  /\ UNCHANGED << aside, fsFiles, jsonFilePath >>

\* createSeparateCSVFiles after the question about the messages file.
CreateSeparateConfirmMessages ==
  /\ cli = "confirmMessages" /\ Returned
  /\ LET r == promptForInput(sel, rd)
         c == ConfirmOverwriteAnswer(r)
     IN  /\ got' = r
         /\ Confirmed(fileNames[2], [exists |-> TRUE, err |-> ErrNil], TRUE, r, c)
         /\ messagesConfirmed(c)
  /\ UNCHANGED << aside, fsFiles, jsonFilePath, fileNames >>

\* createSeparateCSVFiles after exporter.CreateSeparateCSVFiles returned.
CreateSeparateReport ==
  /\ cli = "export" /\ op = "separate" /\ pc = "done"
  /\ IF ret # ErrNil
     THEN IF ret = ErrCanceled \/ ret = ErrEOF
          THEN Ends(0, << MsgExitGracefully >>)
          ELSE Ends(1, << MsgCreateError(ret) >>)
     ELSE Ends(0, << MsgSessionsSaved(fileNames[1]), MsgMessagesSaved(fileNames[2]) >>)
  /\ UNCHANGED << aside, csvVars, got, confirms, fsFiles, jsonFilePath, fileNames >>

\* processDatasetOption after ExtractToDataset returned, and saveToFile up to
\* its first prompt.
ProcessDatasetOption ==
  /\ cli = "export" /\ op = "dataset" /\ pc = "done"
  /\ IF ret # ErrNil
     THEN IF ret = ErrCanceled \/ ret = ErrEOF
          THEN Ends(0, << MsgExitGracefully >>)
          ELSE Ends(1, << MsgErrorReadingInput(ret) >>)
     ELSE Prompts("saveQ", << PromptSaveOutputToFile >>)
  /\ UNCHANGED << aside, csvVars, got, confirms, fsFiles, jsonFilePath, fileNames >>

\* saveToFile after the prompt that offers to save.
SaveToFile ==
  /\ cli = "saveQ" /\ Returned
  /\ LET r == promptForInput(sel, rd)
     IN  /\ got' = r
         /\ IF r.err # ErrNil
            THEN Ends(handleInputError(r.err).code, << handleInputError(r.err).msg >>)
            ELSE IF ToLower(r.input) = "yes"
            THEN Prompts("datasetName", << PromptEnterFileName >>)
            ELSE Ends(0, << MsgNotSaved >>)
  /\ UNCHANGED << aside, csvVars, confirms, fsFiles, jsonFilePath, fileNames >>

\* saveToFile once ConfirmOverwrite returned c: rfs.WriteFile and the report.
saveConfirmed(c, fileName) ==
  IF c.err # ErrNil
  THEN Ends(handleInputError(c.err).code, << handleInputError(c.err).msg >>) /\ UNCHANGED fsFiles
  ELSE IF ~c.overwrite
  THEN Ends(0, << MsgDeclined >>) /\ UNCHANGED fsFiles
  ELSE \E w \in WriteFile(fileName, dataset.bytes) :
         /\ fsFiles' = w.files
         /\ IF w.err # ErrNil
            THEN Ends(0, << MsgWriteError(w.err) >>)
            ELSE Ends(0, << MsgDatasetSaved(fileName) >>)

\* saveToFile after the prompt for the name of the file.
SaveToFileName ==
  /\ cli = "datasetName" /\ Returned
  /\ LET r == promptForInput(sel, rd)
     IN  /\ got' = r
         /\ IF r.err # ErrNil
            THEN /\ Ends(handleInputError(r.err).code, << handleInputError(r.err).msg >>)
                 /\ UNCHANGED << confirms, fileNames, fsFiles >>
            ELSE IF r.input = ""
            THEN /\ Ends(0, << MsgNoFileName >>)
                 /\ UNCHANGED << confirms, fileNames, fsFiles >>
            ELSE /\ fileNames' = << r.input \o ".json" >>
                 /\ \E found \in FileExists(r.input \o ".json") :
                      LET c == ConfirmOverwriteCheck(found)
                      IN  IF c.asks
                          THEN /\ Prompts("confirmDataset", << PromptOverwrite(r.input \o ".json") >>)
                               /\ UNCHANGED << confirms, fsFiles >>
                          ELSE /\ Confirmed(r.input \o ".json", found, FALSE, NotReturned, c)
                               /\ saveConfirmed(c, r.input \o ".json")
  /\ UNCHANGED << aside, csvVars, jsonFilePath >>

\* saveToFile after the question of ConfirmOverwrite was answered.
SaveToFileConfirm ==
  /\ cli = "confirmDataset" /\ Returned
  /\ LET r == promptForInput(sel, rd)
         c == ConfirmOverwriteAnswer(r)
     IN  /\ got' = r
         /\ Confirmed(fileNames[1], [exists |-> TRUE, err |-> ErrNil], TRUE, r, c)
         /\ saveConfirmed(c, fileNames[1])
  /\ UNCHANGED << aside, csvVars, jsonFilePath, fileNames >>

NextCLI ==
  \/ ReaderReadString \/ Select
  \/ MainPath \/ MainRepair \/ ProcessOutputOption \/ ProcessCSVOption
  \/ ExecuteCSVConversion \/ ConvertToSingleCSV \/ MainReturn
  \/ CreateSeparateSessionsName \/ CreateSeparateConfirmSessions
  \/ CreateSeparateMessagesName \/ CreateSeparateConfirmMessages \/ CreateSeparateReport
  \/ ProcessDatasetOption \/ SaveToFile \/ SaveToFileName \/ SaveToFileConfirm
  \/ NextCSV

SpecCLI == InitCLI /\ [][NextCLI]_vars

(***************************************************************************)
(* updater.UpdateApplication                                               *)
(***************************************************************************)
currentVersion == "1.3.3.7"

\* "ChatGPT-Next-Web-Session-Exporter-%s-%s" of runtime.GOOS and
\* runtime.GOARCH, on linux/amd64.
PlatformAssetName == "ChatGPT-Next-Web-Session-Exporter-linux-amd64"

Asset(name) == [Name |-> name, BrowserDownloadURL |-> "https://github.com/download/" \o name]

\* The tags the latest release may carry: an older version, the current
\* one, the current one written with a v, a newer one.
TagNames == {"1.3.3.6", "1.3.3.7", "v1.3.3.7", "1.3.3.8"}

AssetLists ==
  {<< >>,
   << Asset("ChatGPT-Next-Web-Session-Exporter-windows-amd64") >>,
   << Asset(PlatformAssetName) >>,
   << Asset("ChatGPT-Next-Web-Session-Exporter-windows-amd64"), Asset(PlatformAssetName) >>}

Releases == {[TagName |-> t, Assets |-> a] : t \in TagNames, a \in AssetLists}

ErrFetch == "error fetching latest release"
ErrNoBinary == "no binary for the current platform"
ErrDownload == "error downloading update"
ErrTempFile == "error creating temp file"
ErrCopy == "unexpected EOF"
ErrReplace == "error replacing binary"

InitUpdate ==
  /\ RepairOff
  /\ CSVOff
  /\ ReadOff
  /\ CLIOff
  /\ upc = "start"
  /\ release \in Releases
  /\ fetched = NotFetched
  /\ assetURL = ""
  /\ tempFile = NoTempFile
  /\ binary = currentVersion
  /\ restarted = FALSE
  /\ uret = "running"

\* UpdateApplication returns err.
UpdateReturns(err) ==
  /\ uret' = err
  /\ upc' = "done"

\* getLatestRelease: the request fails, the status is not 200, the body
\* does not decode, or the release is returned.
getLatestRelease ==
  /\ upc = "start"
  /\ \/ /\ fetched' = [err |-> ErrFetch]
        /\ UpdateReturns(ErrFetch)
     \/ /\ fetched' = [err |-> ErrNil, release |-> release]
        /\ upc' = "compare"
        /\ UNCHANGED uret
  /\ UNCHANGED << repairVars, csvVars, readVars, cliVars, release, assetURL, tempFile, binary,
                  restarted >>

\* UpdateApplication: if release.TagName == currentVersion it returns nil.
UpdateApplication ==
  /\ upc = "compare"
  /\ IF fetched.release.TagName = currentVersion
     THEN UpdateReturns(ErrNil)
     ELSE upc' = "find" /\ UNCHANGED uret
  /\ UNCHANGED << repairVars, csvVars, readVars, cliVars, release, fetched, assetURL, tempFile,
                  binary, restarted >>

\* findMatchingAsset: the URL of the first asset with the name of the
\* platform.
findMatchingAsset(r) ==
  LET matching == {i \in 1..Len(r.Assets) : r.Assets[i].Name = PlatformAssetName}
  IN  IF matching = {}
      THEN [url |-> "", err |-> ErrNoBinary]
      ELSE [url |-> r.Assets[CHOOSE i \in matching : \A k \in matching : i <= k].BrowserDownloadURL,
            err |-> ErrNil]

\* downloadAndUpdate up to the call of downloadAsset.
downloadAndUpdate ==
  /\ upc = "find"
  /\ LET found == findMatchingAsset(fetched.release)
     IN  IF found.err # ErrNil
         THEN UpdateReturns(found.err) /\ UNCHANGED assetURL
         ELSE assetURL' = found.url /\ upc' = "download" /\ UNCHANGED uret
  /\ UNCHANGED << repairVars, csvVars, readVars, cliVars, release, fetched, tempFile, binary,
                  restarted >>

\* downloadAsset: http.Get fails; os.CreateTemp fails; io.Copy fails and
\* leaves a part of the body in the temporary file; or the body is copied,
\* which is the asset or, the status of the response not being looked at,
\* the page of an error.
downloadAsset ==
  /\ upc = "download"
  /\ \/ UpdateReturns(ErrDownload) /\ UNCHANGED tempFile
     \/ UpdateReturns(ErrTempFile) /\ UNCHANGED tempFile
     \/ /\ tempFile' = [exists |-> TRUE, content |-> "partial"]
        /\ UpdateReturns(ErrCopy)
     \/ /\ tempFile' \in {[exists |-> TRUE, content |-> assetURL],
                          [exists |-> TRUE, content |-> "404 Not Found"]}
        /\ upc' = "apply"
        /\ UNCHANGED uret
  /\ UNCHANGED << repairVars, csvVars, readVars, cliVars, release, fetched, assetURL, binary,
                  restarted >>

\* applyUpdate: os.Rename of the temporary file to the name of the binary.
applyUpdate ==
  /\ upc = "apply"
  /\ \/ /\ binary' = tempFile.content
        /\ tempFile' = NoTempFile
        /\ upc' = "restart"
        /\ UNCHANGED uret
     \/ /\ UpdateReturns(ErrReplace)
        /\ UNCHANGED << binary, tempFile >>
  /\ UNCHANGED << repairVars, csvVars, readVars, cliVars, release, fetched, assetURL, restarted >>

\* restartApplication: the new process starts and this one exits with 0; or
\* it does not start and UpdateApplication returns nil.
restartApplication ==
  /\ upc = "restart"
  /\ \/ restarted' = TRUE /\ UpdateReturns("exit 0")
     \/ UpdateReturns(ErrNil) /\ UNCHANGED restarted
  /\ UNCHANGED << repairVars, csvVars, readVars, cliVars, release, fetched, assetURL, tempFile,
                  binary >>

NextUpdate ==
  \/ getLatestRelease \/ UpdateApplication \/ downloadAndUpdate \/ downloadAsset
  \/ applyUpdate \/ restartApplication

SpecUpdate == InitUpdate /\ [][NextUpdate]_vars

(***************************************************************************)
(* Properties of the repair transform                                      *)
(***************************************************************************)
\* The sessions array of a text that has one.
SessionsOf(bytes) == Get(Get(bytes.tree, "chat-next-web-store"), "sessions").e

\* Every member and element of a is in b, at the same place, with the same
\* value (b may hold more members).  path is where a and b are in their
\* session; a null systemprompt of a modelConfig counts as no systemprompt.
RECURSIVE PreservedAt(_, _, _)
PreservedAt(path, a, b) ==
  \/ path = ".mask.modelConfig.systemprompt" /\ a.t = "null"
  \/ /\ a.t = b.t
     /\ CASE a.t = "obj" ->
               \A i \in 1..Len(a.m) :
                  /\ HasKey(b, a.m[i].k)
                  /\ PreservedAt(path \o "." \o a.m[i].k, a.m[i].v, Get(b, a.m[i].k))
          [] a.t = "arr" ->
               /\ Len(a.e) = Len(b.e)
               /\ \A i \in 1..Len(a.e) : PreservedAt(path, a.e[i], b.e[i])
          [] OTHER -> a = b

Preserved(a, b) == PreservedAt("", a, b)

\* a and b have the same members with the same values, in any order.
SameFields(a, b) == Preserved(a, b) /\ Preserved(b, a)

Present(j, k) == j.t = "obj" /\ HasKey(j, k) /\ Get(j, k).t # "null"

HasModelConfig(s) == Present(s, "mask") /\ Present(Get(s, "mask"), "modelConfig")
ModelConfigOf(s) == Get(Get(s, "mask"), "modelConfig")

RepairSucceeded == rpc # "start" /\ ~repaired.err

\* C1: every field a session has in the input is in the output of a
\* successful repair with the same value (the output may only have more).
C1_FieldPreservation ==
  RepairSucceeded =>
    /\ Len(SessionsOf(repaired.bytes)) = Len(SessionsOf(oldDataBytes))
    /\ \A i \in 1..Len(SessionsOf(oldDataBytes)) :
          Preserved(SessionsOf(oldDataBytes)[i], SessionsOf(repaired.bytes)[i])

FixedTemplate ==
  "\nYou are ChatGPT, a large language model trained by OpenAI.\nKnowledge cutoff: {{cutoff}}\nCurrent model: {{model}}\nCurrent time: {{time}}\nLatex inline: $x^2$ \nLatex block: $$e=mc^2$$\n"

\* What C2 asks of the n-th session: with a mask and a modelConfig, the
\* output has a systemprompt that is not null; it is the fixed template if
\* the input had none (a missing key or null), and the input's otherwise.
SystemPromptRepaired(n) ==
  LET before == SessionsOf(oldDataBytes)[n]
      after == SessionsOf(repaired.bytes)[n]
  IN  HasModelConfig(before) =>
        /\ HasModelConfig(after)
        /\ Present(ModelConfigOf(after), "systemprompt")
        /\ Get(ModelConfigOf(after), "systemprompt") =
             IF Present(ModelConfigOf(before), "systemprompt")
             THEN Get(ModelConfigOf(before), "systemprompt")
             ELSE JObj(<< Member("default", JStr(FixedTemplate)) >>)

\* C2: after a successful repair every session with a mask and a
\* modelConfig has a non-null systemprompt: the fixed template, placeholders
\* unexpanded, if it had none, and its previous value if it had one.
C2_SystemPromptEnsured ==
  RepairSucceeded => \A n \in 1..Len(SessionsOf(oldDataBytes)) : SystemPromptRepaired(n)

\* A successful repair of a file in which one session got the template and
\* another kept its own systemprompt.
C2_Witness ==
  /\ RepairSucceeded
  /\ \E i, k \in 1..Len(SessionsOf(oldDataBytes)) :
        /\ HasModelConfig(SessionsOf(oldDataBytes)[i])
        /\ ~Present(ModelConfigOf(SessionsOf(oldDataBytes)[i]), "systemprompt")
        /\ Get(Get(ModelConfigOf(SessionsOf(repaired.bytes)[i]), "systemprompt"), "default")
             = JStr(FixedTemplate)
        /\ HasModelConfig(SessionsOf(oldDataBytes)[k])
        /\ Present(ModelConfigOf(SessionsOf(oldDataBytes)[k]), "systemprompt")
        /\ Get(Get(ModelConfigOf(SessionsOf(repaired.bytes)[k]), "systemprompt"), "default")
             = JStr(CustomPrompt)

\* C3: repairing the output of a successful repair succeeds and gives that
\* output again, member for member in the same order and in the same
\* whitespace style.
C3_RepairIdempotent ==
  rpc = "again" => ~repairedAgain.err /\ repairedAgain.bytes = repaired.bytes

\* A second repair of a file whose first repair patched two sessions and
\* changed the text.
C3_Witness ==
  /\ rpc = "again"
  /\ ~repairedAgain.err
  /\ repaired.bytes # oldDataBytes
  /\ Len(SessionsOf(oldDataBytes)) >= 2
  /\ \A n \in 1..2 :
        /\ HasModelConfig(SessionsOf(oldDataBytes)[n])
        /\ ~Present(ModelConfigOf(SessionsOf(oldDataBytes)[n]), "systemprompt")
        /\ Present(ModelConfigOf(SessionsOf(repairedAgain.bytes)[n]), "systemprompt")

\* C4: a session without a mask or without a modelConfig has, after a
\* successful repair, exactly the members and values it had.
C4_UnpatchedSessionUntouched ==
  RepairSucceeded =>
    \A n \in 1..Len(SessionsOf(oldDataBytes)) :
       ~HasModelConfig(SessionsOf(oldDataBytes)[n]) =>
          SameFields(SessionsOf(oldDataBytes)[n], SessionsOf(repaired.bytes)[n])

(***************************************************************************)
(* Properties of the CSV projections                                       *)
(***************************************************************************)
InlineHeader == << "id", "topic", "memoryPrompt", "messages" >>
PerLineHeader == << "session_id", "message_id", "date", "role", "content", "memoryPrompt" >>
JSONEmbedHeader == << "id", "topic", "memoryPrompt", "messages" >>
SessionsTableHeader == << "id", "topic", "memoryPrompt" >>
MessagesTableHeader == << "session_id", "message_id", "date", "role", "content", "memoryPrompt" >>

\* The header the spec gives the file f of the running call.
HeaderOf(f) ==
  CASE f = SessionsFile -> SessionsTableHeader
    [] f = MessagesFile -> MessagesTableHeader
    [] f = OutputFile /\ formatOption = 1 -> InlineHeader
    [] f = OutputFile /\ formatOption = 2 -> PerLineHeader
    [] f = OutputFile /\ formatOption = 3 -> JSONEmbedHeader
    [] OTHER -> << >>

RowsOf(f) == disk[f].rows
DataRowsOf(f) == {i \in 1..Len(RowsOf(f)) : RowsOf(f)[i].kind = "data"}

MessageCount(s) == IF s.Messages = GNil THEN 0 ELSE Len(s.Messages.v)

RECURSIVE TotalMessages(_)
TotalMessages(ss) == IF ss = << >> THEN 0 ELSE MessageCount(Head(ss)) + TotalMessages(Tail(ss))

ConvertEnded(errs) == op = "convert" /\ pc = "done" /\ ret \in errs

\* C5: a call of ConvertSessionsToCSV with a selector outside
\* {Inline, PerLine, JSONEmbed, SeparateFiles} never creates, truncates or
\* writes the output file, and ends with an error.
C5_InvalidFormatBeforeOutput ==
  (op = "convert" /\ formatOption \notin {1, 2, 3, 4}) =>
     /\ disk[OutputFile] = diskBefore[OutputFile]
     /\ pc = "done" => ret # ErrNil

\* The file f starts with the header row and holds data rows after it.
HeaderFirstOnce(f) ==
  /\ Len(RowsOf(f)) >= 1
  /\ RowsOf(f)[1] = HeaderRow(HeaderOf(f))
  /\ \A i \in 2..Len(RowsOf(f)) : RowsOf(f)[i].kind = "data"
  /\ sessions = << >> => Len(RowsOf(f)) = 1

\* C6: after a successful or cancelled run every output file starts with
\* the fixed header of its format, once, and only data rows follow; with
\* no sessions the header is all there is.
C6_HeaderFirstOnce ==
  /\ ConvertEnded({ErrNil, ErrCanceled}) => HeaderFirstOnce(OutputFile)
  /\ (op = "separate" /\ pc = "done" /\ ret = ErrNil) =>
        HeaderFirstOnce(SessionsFile) /\ HeaderFirstOnce(MessagesFile)

\* A cancelled PerLine run that left the header and data rows in the file.
C6_Witness ==
  /\ ConvertEnded({ErrCanceled})
  /\ formatOption = FormatOptionPerLine
  /\ Len(RowsOf(OutputFile)) >= 3
  /\ RowsOf(OutputFile)[1].cells = PerLineHeader

\* C7: no data row of any output file equals the header row of that file.
C7_NoDataRowEqualsHeader ==
  \A f \in FileNames : \A i \in DataRowsOf(f) : RowsOf(f)[i].cells # HeaderOf(f)

SpellsMessageColumns(s) ==
  /\ s.ID = "session_id" /\ s.MemoryPrompt = "memoryPrompt"
  /\ \E k \in 1..MessageCount(s) :
        /\ s.Messages.v[k].ID = "message_id" /\ s.Messages.v[k].Date = "date"
        /\ s.Messages.v[k].Role = "role" /\ s.Messages.v[k].Content = "content"

SpellsSessionColumns(s) == s.ID = "id" /\ s.Topic = "topic" /\ s.MemoryPrompt = "memoryPrompt"

\* C7, amended: in Inline and JSONEmbed no data row equals the header row;
\* in PerLine and in the two tables of SeparateFiles a data row equals the
\* header row only if a session, or a session and one of its messages,
\* spells the column names.
C7_DataRowEqualsHeaderOnlyIfSpelled ==
  \A f \in FileNames : \A i \in DataRowsOf(f) :
     RowsOf(f)[i].cells = HeaderOf(f) =>
        \/ /\ f = MessagesFile \/ (f = OutputFile /\ formatOption = FormatOptionPerLine)
           /\ \E n \in 1..Len(sessions) : SpellsMessageColumns(sessions[n])
        \/ /\ f = SessionsFile
           /\ \E n \in 1..Len(sessions) : SpellsSessionColumns(sessions[n])

\* An Inline run over a session whose id, topic and memoryPrompt are the
\* first three column names; its row is in the file.
C7_Witness ==
  /\ ConvertEnded({ErrNil})
  /\ formatOption = FormatOptionInline
  /\ \E i \in DataRowsOf(OutputFile) :
        /\ RowsOf(OutputFile)[i].cells[1] = "id"
        /\ RowsOf(OutputFile)[i].cells[2] = "topic"
        /\ RowsOf(OutputFile)[i].cells[3] = "memoryPrompt"

\* C8: a PerLine run that returned nil left as many data rows as the
\* sessions have messages; a PerLine run fails only because the file was
\* not created or the context was cancelled, never because a session has
\* no messages.
C8_PerLineRowCount ==
  /\ (ConvertEnded({ErrNil}) /\ formatOption = FormatOptionPerLine) =>
        Cardinality(DataRowsOf(OutputFile)) = TotalMessages(sessions)
  /\ (op = "convert" /\ pc = "done" /\ formatOption = FormatOptionPerLine) =>
        ret \in {ErrNil, ErrCreate, ErrCanceled}

\* A PerLine run that returned nil for sessions with and without messages.
C8_Witness ==
  /\ ConvertEnded({ErrNil}) /\ formatOption = FormatOptionPerLine
  /\ \E i, k \in 1..Len(sessions) : MessageCount(sessions[i]) = 0 /\ MessageCount(sessions[k]) = 2
  /\ Cardinality(DataRowsOf(OutputFile)) = 2

\* C9: an Inline or JSONEmbed run that returned nil left one data row per
\* session.
C9_RowPerSession ==
  (ConvertEnded({ErrNil}) /\ formatOption \in {FormatOptionInline, FormatOptionJSON}) =>
     Cardinality(DataRowsOf(OutputFile)) = Len(sessions)

\* An Inline run that returned nil for a session without messages and one
\* with two.
C9_Witness ==
  /\ ConvertEnded({ErrNil}) /\ formatOption = FormatOptionInline
  /\ \E i, k \in 1..Len(sessions) : MessageCount(sessions[i]) = 0 /\ MessageCount(sessions[k]) = 2
  /\ Cardinality(DataRowsOf(OutputFile)) = 2

\* The messages cell of the spec: each message as [role, date] "content",
\* a "; " between two of them.
RECURSIVE InlineCell(_)
InlineCell(ms) ==
  IF ms = << >> THEN ""
  ELSE "[" \o Head(ms).Role \o ", " \o Head(ms).Date \o "] \"" \o Head(ms).Content \o "\""
       \o (IF Tail(ms) = << >> THEN "" ELSE "; " \o InlineCell(Tail(ms)))

MessagesOf(s) == IF s.Messages = GNil THEN << >> ELSE s.Messages.v

\* C10: in an Inline file the i-th data row is (id, topic, memoryPrompt,
\* messages) of the i-th session, the messages cell as in the spec: empty
\* for a session without messages, both messages in order for the session
\* with two.
C10_InlineRow ==
  (op = "convert" /\ formatOption = FormatOptionInline) =>
     /\ \A i \in DataRowsOf(OutputFile) :
          /\ i >= 2 /\ i - 1 <= Len(sessions)
          /\ RowsOf(OutputFile)[i].cells =
               << sessions[i - 1].ID, sessions[i - 1].Topic, sessions[i - 1].MemoryPrompt,
                  InlineCell(MessagesOf(sessions[i - 1])) >>
          /\ MessageCount(sessions[i - 1]) = 0 => RowsOf(OutputFile)[i].cells[4] = ""
          /\ sessions[i - 1] = SessionTwoMessages =>
               RowsOf(OutputFile)[i].cells[4] =
                 "[user, 11/27/2023, 10:14:00 AM] \"hello\"; [assistant, 11/27/2023, 10:14:05 AM] \"hi there\""
     /\ (pc = "done" /\ ret = ErrNil) => Cardinality(DataRowsOf(OutputFile)) = Len(sessions)

\* An Inline run that returned nil and wrote the row of the session with
\* two messages and the row of a session without messages.
C10_Witness ==
  /\ ConvertEnded({ErrNil}) /\ formatOption = FormatOptionInline
  /\ \E i, k \in DataRowsOf(OutputFile) :
        /\ sessions[i - 1] = SessionTwoMessages
        /\ RowsOf(OutputFile)[k].cells[4] = ""

(***************************************************************************)
(* Reading JSON text: a reader of the lexemes of a text, as a consumer of  *)
(* the files applies it.  It reads null, true, false, strings, arrays and  *)
(* objects (the texts it is applied to hold no number).                    *)
(***************************************************************************)
\* The character the escape sequence \c stands for; "" when there is none.
Unescape(c) ==
  CASE c = "\"" -> "\""
    [] c = "\\" -> "\\"
    [] c = "u003c" -> "<"
    [] c = "u003e" -> ">"
    [] c = "u0026" -> "&"
    [] OTHER -> ""

\* The string whose opening quote is just before lexeme i.
RECURSIVE ReadString(_, _, _)
ReadString(toks, i, acc) ==
  IF i > Len(toks) THEN [ok |-> FALSE]
  ELSE CASE toks[i] = "\"" -> [ok |-> TRUE, v |-> acc, next |-> i + 1]
         [] toks[i] = "\\" ->
              IF i + 1 > Len(toks) \/ Unescape(toks[i + 1]) = "" THEN [ok |-> FALSE]
              ELSE ReadString(toks, i + 2, acc \o Unescape(toks[i + 1]))
         [] OTHER -> ReadString(toks, i + 1, acc \o toks[i])

RECURSIVE ReadValue(_, _)
RECURSIVE ReadElements(_, _, _)
RECURSIVE ReadMembers(_, _, _)

\* The rest of an array, an element being due at lexeme i.
ReadElements(toks, i, acc) ==
  LET r == ReadValue(toks, i)
  IN  IF ~r.ok \/ r.next > Len(toks) THEN [ok |-> FALSE]
      ELSE CASE toks[r.next] = "," -> ReadElements(toks, r.next + 1, Append(acc, r.v))
             [] toks[r.next] = "]" ->
                  [ok |-> TRUE, v |-> JArr(Append(acc, r.v)), next |-> r.next + 1]
             [] OTHER -> [ok |-> FALSE]

\* The rest of an object, a key being due at lexeme i.
ReadMembers(toks, i, acc) ==
  IF i > Len(toks) \/ toks[i] # "\"" THEN [ok |-> FALSE]
  ELSE LET k == ReadString(toks, i + 1, "")
       IN  IF ~k.ok \/ k.next > Len(toks) \/ toks[k.next] # ":" THEN [ok |-> FALSE]
           ELSE LET r == ReadValue(toks, k.next + 1)
                IN  IF ~r.ok \/ r.next > Len(toks) THEN [ok |-> FALSE]
                    ELSE CASE toks[r.next] = "," ->
                                ReadMembers(toks, r.next + 1, Append(acc, Member(k.v, r.v)))
                           [] toks[r.next] = "}" ->
                                [ok |-> TRUE, v |-> JObj(Append(acc, Member(k.v, r.v))),
                                 next |-> r.next + 1]
                           [] OTHER -> [ok |-> FALSE]

\* The value that starts at lexeme i.
ReadValue(toks, i) ==
  IF i > Len(toks) THEN [ok |-> FALSE]
  ELSE CASE toks[i] = "null" -> [ok |-> TRUE, v |-> JNull, next |-> i + 1]
         [] toks[i] = "true" -> [ok |-> TRUE, v |-> JBool(TRUE), next |-> i + 1]
         [] toks[i] = "false" -> [ok |-> TRUE, v |-> JBool(FALSE), next |-> i + 1]
         [] toks[i] = "\"" ->
              LET s == ReadString(toks, i + 1, "")
              IN  IF s.ok THEN [ok |-> TRUE, v |-> JStr(s.v), next |-> s.next]
                  ELSE [ok |-> FALSE]
         [] toks[i] = "[" ->
              IF i + 1 <= Len(toks) /\ toks[i + 1] = "]"
              THEN [ok |-> TRUE, v |-> JArr(<< >>), next |-> i + 2]
              ELSE ReadElements(toks, i + 1, << >>)
         [] toks[i] = "{" ->
              IF i + 1 <= Len(toks) /\ toks[i + 1] = "}"
              THEN [ok |-> TRUE, v |-> JObj(<< >>), next |-> i + 2]
              ELSE ReadMembers(toks, i + 1, << >>)
         [] OTHER -> [ok |-> FALSE]

\* The tree of a text that is one JSON value and nothing more.
Decode(toks) ==
  LET r == ReadValue(toks, 1)
  IN  IF r.ok /\ r.next = Len(toks) + 1 THEN [ok |-> TRUE, tree |-> r.v] ELSE [ok |-> FALSE]

\* The message list a reader gets from the text toks.
DecodeMessages(toks) ==
  IF ~Decode(toks).ok THEN [ok |-> FALSE] ELSE Unmarshal(TSlice(Message), Decode(toks).tree)

\* The lexemes of the text json.Marshal(session.Messages) produced.
MessagesCell(s) == Encode(Marshal(TSlice(Message), s.Messages))

\* C11: the messages cell of every data row of a JSONEmbed file is a JSON
\* text, and read as JSON it gives the messages of the session of that row:
\* as many, in the same order, each with the same id, date, role and
\* content.
C11_JSONEmbedReversible ==
  (op = "convert" /\ formatOption = FormatOptionJSON) =>
     \A i \in DataRowsOf(OutputFile) :
        /\ i >= 2 /\ i - 1 <= Len(sessions)
        /\ RowsOf(OutputFile)[i].cells[4] = Text(MessagesCell(sessions[i - 1]))
        /\ DecodeMessages(MessagesCell(sessions[i - 1])).ok
        /\ Range(DecodeMessages(MessagesCell(sessions[i - 1])).v) = MessagesOf(sessions[i - 1])

\* A JSONEmbed run that returned nil and wrote the row of the session whose
\* messages hold quotes, a backslash and angle brackets, and the row of a
\* session with a nil message list.
C11_Witness ==
  /\ ConvertEnded({ErrNil}) /\ formatOption = FormatOptionJSON
  /\ \E i, k \in DataRowsOf(OutputFile) :
        /\ sessions[i - 1] = SessionQuoted
        /\ Range(DecodeMessages(MessagesCell(SessionQuoted)).v)[2].Content = MarkupContent
        /\ RowsOf(OutputFile)[k].cells[4] = "null"

(***************************************************************************)
(* Order of the projections                                                *)
(***************************************************************************)
\* The number of messages of the sessions before the i-th.
RECURSIVE Offset(_, _)
Offset(ss, i) == IF i <= 1 THEN 0 ELSE MessageCount(ss[i - 1]) + Offset(ss, i - 1)

\* rows is a header and, for the j-th message of the i-th session, the row
\* of that message at the place all the messages before it leave it.
MessageRowsInOrder(rows) ==
  /\ Len(rows) = 1 + TotalMessages(sessions)
  /\ \A i \in 1..Len(sessions) : \A j \in 1..MessageCount(sessions[i]) :
        rows[1 + Offset(sessions, i) + j].cells =
          << sessions[i].ID, sessions[i].Messages.v[j].ID, sessions[i].Messages.v[j].Date,
             sessions[i].Messages.v[j].Role, sessions[i].Messages.v[j].Content,
             sessions[i].MemoryPrompt >>

\* rows is a header and the row of the i-th session at place i + 1; the
\* first three cells are the id, the topic and the memoryPrompt.
SessionRowsInOrder(rows) ==
  /\ Len(rows) = 1 + Len(sessions)
  /\ \A i \in 1..Len(sessions) :
        SubSeq(rows[i + 1].cells, 1, 3) =
          << sessions[i].ID, sessions[i].Topic, sessions[i].MemoryPrompt >>

\* The sessions a reader gets from the text ExtractToDataset returned.
DatasetSessions == Unmarshal(TSlice(Session), Get(dataset.bytes.tree, "dataset"))

\* C12: every projection that ran to its end emits the sessions in the
\* order of the list and the messages of a session in their order, none
\* dropped, repeated, merged or moved, also when sessions or messages share
\* an id: the rows of Inline and JSONEmbed and of the sessions table are
\* the sessions one by one, the rows of PerLine and of the messages table
\* the messages one by one, the dataset array the sessions one by one.
C12_SourceOrder ==
  /\ (ConvertEnded({ErrNil}) /\ formatOption = FormatOptionInline) =>
        /\ SessionRowsInOrder(RowsOf(OutputFile))
        /\ \A i \in 1..Len(sessions) :
              RowsOf(OutputFile)[i + 1].cells[4] = InlineCell(MessagesOf(sessions[i]))
  /\ (ConvertEnded({ErrNil}) /\ formatOption = FormatOptionJSON) =>
        /\ SessionRowsInOrder(RowsOf(OutputFile))
        /\ \A i \in 1..Len(sessions) :
              /\ RowsOf(OutputFile)[i + 1].cells[4] = Text(MessagesCell(sessions[i]))
              /\ DecodeMessages(MessagesCell(sessions[i])).ok
              /\ LET decoded == DecodeMessages(MessagesCell(sessions[i])).v
                 IN  IF decoded = GNil THEN MessageCount(sessions[i]) = 0
                     ELSE decoded.v = MessagesOf(sessions[i])
  /\ (ConvertEnded({ErrNil}) /\ formatOption = FormatOptionPerLine) =>
        MessageRowsInOrder(RowsOf(OutputFile))
  /\ (op = "separate" /\ pc = "done" /\ ret = ErrNil) =>
        /\ SessionRowsInOrder(RowsOf(SessionsFile))
        /\ MessageRowsInOrder(RowsOf(MessagesFile))
  /\ (op = "dataset" /\ pc = "done") =>
        /\ dataset.err = ErrNil
        /\ DatasetSessions.ok
        /\ DatasetSessions.v = GSome(sessions)

\* A PerLine run that returned nil for two sessions with the same id, each
\* with two messages of the same id: four data rows, the second and the
\* fourth with the content of the second message.
C12_Witness ==
  /\ ConvertEnded({ErrNil}) /\ formatOption = FormatOptionPerLine
  /\ sessions = << SessionQuoted, SessionQuoted >>
  /\ Len(RowsOf(OutputFile)) = 5
  /\ RowsOf(OutputFile)[3].cells[5] = MarkupContent
  /\ RowsOf(OutputFile)[5].cells[5] = MarkupContent

(***************************************************************************)
(* Cancellation                                                            *)
(***************************************************************************)
\* The cells of the rows the spec gives a session in the format f.
RowsOfSession(f, s) ==
  CASE f = FormatOptionInline ->
         << << s.ID, s.Topic, s.MemoryPrompt, InlineCell(MessagesOf(s)) >> >>
    [] f = FormatOptionPerLine ->
         [j \in 1..MessageCount(s) |->
            << s.ID, s.Messages.v[j].ID, s.Messages.v[j].Date, s.Messages.v[j].Role,
               s.Messages.v[j].Content, s.MemoryPrompt >>]
    [] f = FormatOptionJSON ->
         << << s.ID, s.Topic, s.MemoryPrompt, Text(MessagesCell(s)) >> >>

\* The cells of the rows of the first k sessions.
RECURSIVE RowsOfFirst(_, _, _)
RowsOfFirst(f, ss, k) ==
  IF k = 0 THEN << >> ELSE RowsOfFirst(f, ss, k - 1) \o RowsOfSession(f, ss[k])

\* The cells of the rows that follow the first row.
CellsAfterHeader(rows) == [i \in 1..(Len(rows) - 1) |-> rows[i + 1].cells]

\* C13: ConvertSessionsToCSV looks at the context once per session, before
\* the rows of that session: whenever the loop is about to look, the rows
\* written so far (in the file or in the writer) are the complete rows of
\* the sessions before; and when the call has returned Canceled the file
\* holds, after the header, exactly the complete rows of the first k
\* sessions for a k with 0 <= k < number of sessions: nothing of the
\* session at which the cancellation was seen or of a later one, and
\* nothing written before is taken back.
C13_CancelledPrefix ==
  /\ (op = "convert" /\ pc = "loop") =>
        CellsAfterHeader(RowsOf(OutputFile) \o buffered[OutputFile]) =
          RowsOfFirst(formatOption, sessions, idx - 1)
  /\ ConvertEnded({ErrCanceled}) =>
        /\ ctxDone
        /\ idx \in 1..Len(sessions)
        /\ \E k \in 0..(Len(sessions) - 1) :
             /\ k = idx - 1
             /\ CellsAfterHeader(RowsOf(OutputFile)) = RowsOfFirst(formatOption, sessions, k)

\* A PerLine run over two sessions cancelled after the first: the file
\* holds the header and the two rows of the first session, and no row of
\* the second.
C13_Witness ==
  /\ ConvertEnded({ErrCanceled}) /\ formatOption = FormatOptionPerLine
  /\ sessions = << SessionTwoMessages, SessionQuoted >>
  /\ Len(RowsOf(OutputFile)) = 3
  /\ RowsOf(OutputFile)[3].cells[5] = "hi there"

\* A step of the loop of ConvertSessionsToCSV that looks at the context
\* while it is cancelled.
CheckSeesCancellation ==
  /\ op = "convert" /\ pc = "loop" /\ idx <= Len(sessions) /\ ctxDone
  /\ pc' # pc \/ idx' # idx

\* C14: a cancelled projection is never presented as a success: the step
\* of ConvertSessionsToCSV that looks at a cancelled context ends the call
\* with Canceled, and after a call that returned Canceled the command line
\* prints that the operation was cancelled and never that the CSV output
\* was saved (which it prints only after nil).
C14_CancelledNotSuccess ==
  /\ [][CheckSeesCancellation => (pc' = "done" /\ ret' = ErrCanceled)]_vars
  /\ [](ConvertEnded({ErrCanceled}) => printed \in {<< >>, << MsgCanceled >>})
  /\ []((op = "convert" /\ printed = << MsgSaved >>) => (pc = "done" /\ ret = ErrNil))

\* A run cancelled after rows were written, reported as cancelled.
C14_Witness ==
  /\ ConvertEnded({ErrCanceled})
  /\ printed = << MsgCanceled >>
  /\ Len(RowsOf(OutputFile)) >= 2

(***************************************************************************)
(* Properties of ReadJSONFromFile                                          *)
(***************************************************************************)
\* ReadJSONFromFile was called on a file that exists.
FileRead == readResult # NotRead /\ jsonFile.exists

\* A JSON object without the key "chat-next-web-store", or one whose
\* "chat-next-web-store" is an object without "sessions" or with
\* "sessions": null.
LacksSessions(tree) ==
  /\ tree.t = "obj"
  /\ \/ ~HasKey(tree, "chat-next-web-store")
     \/ /\ Get(tree, "chat-next-web-store").t = "obj"
        /\ \/ ~HasKey(Get(tree, "chat-next-web-store"), "sessions")
           \/ Get(Get(tree, "chat-next-web-store"), "sessions").t = "null"

\* C15: a file that is valid JSON and lacks the key "chat-next-web-store"
\* or has "sessions" absent or null fails with the format error (not with
\* the syntax error); a file that is not valid JSON fails with the syntax
\* error; in both cases no store is accepted.
C15_FormatVersusSyntax ==
  FileRead =>
     /\ (~jsonFile.bytes.bad /\ LacksSessions(jsonFile.bytes.tree)) =>
           readResult.err = ErrFormat
     /\ jsonFile.bytes.bad => readResult.err = ErrSyntax

\* The id of the mask of the one session of the store that was read.
MaskIDRead == readResult.store.ChatNextWebStore.Sessions.v[1].Mask.ID

\* C16: an id written as a JSON string decodes to that string, one written
\* as an integer to its base-10 text, and one written as anything else
\* (null, a boolean, a number that is not an integer, an array, an object)
\* makes the decoding fail.
C16_StringOrIntDecoding ==
  \A id \in IdValues :
     (FileRead /\ jsonFile.bytes = IdFile(id)) =>
        CASE id.t = "str" -> readResult.err = ErrNil /\ MaskIDRead = id.s
          [] id.t = "num" -> readResult.err = ErrNil /\ MaskIDRead = ToString(id.n)
          [] OTHER -> readResult.err # ErrNil

(***************************************************************************)
(* Properties of ExtractToDataset                                          *)
(***************************************************************************)
\* C17: the text ExtractToDataset returns is a JSON object with the single
\* key "dataset", and its value decodes to the sessions that were passed:
\* as many, in the same order, every field of every session and message
\* with the value it had.
C17_DatasetRoundTrip ==
  (op = "dataset" /\ pc = "done") =>
     /\ ret = ErrNil
     /\ ~dataset.bytes.bad
     /\ dataset.bytes.tree.t = "obj"
     /\ Len(dataset.bytes.tree.m) = 1
     /\ dataset.bytes.tree.m[1].k = "dataset"
     /\ LET decoded == Unmarshal(TSlice(Session), dataset.bytes.tree.m[1].v)
        IN  /\ decoded.ok
            /\ decoded.v # GNil
            /\ Len(decoded.v.v) = Len(sessions)
            /\ \A i \in 1..Len(sessions) : decoded.v.v[i] = sessions[i]

\* A dataset of two sessions, the first with a nil message list, the second
\* with two messages of the same id.
C17_Witness ==
  /\ op = "dataset" /\ pc = "done"
  /\ sessions = << SessionNamedLikeColumns, SessionQuoted >>
  /\ Get(dataset.bytes.tree.m[1].v.e[1], "messages") = JNull
  /\ Len(Get(dataset.bytes.tree.m[1].v.e[2], "messages").e) = 2

(***************************************************************************)
(* Frame                                                                   *)
(***************************************************************************)
\* C18: no step of ConvertSessionsToCSV, of CreateSeparateCSVFiles or of
\* ExtractToDataset changes the session list it was handed, so the list is
\* the same after the call, whether it ended well, with an error or
\* cancelled.
C18_SessionsUnchanged == [][sessions' = sessions]_vars

\* CreateSeparateCSVFiles returned an error after it wrote the rows of two
\* sessions, one of them with a nil message list.
C18_Witness ==
  /\ op = "separate" /\ pc = "done" /\ ret = ErrFlush
  /\ Len(sessions) = 2
  /\ \E i \in 1..2 : sessions[i].Messages = GNil
  /\ Len(RowsOf(SessionsFile)) = 3

(***************************************************************************)
(* SeparateFiles                                                           *)
(***************************************************************************)
\* The rows ConvertSessionsToCSV writes for ss in the PerLine format: the
\* header of the format, then the rows writePerLineFormat writes for each
\* session.
PerLineOutput(ss) ==
  LET RECURSIVE Data(_)
      Data(i) == IF i > Len(ss) THEN << >> ELSE writePerLineFormat(ss[i]) \o Data(i + 1)
  IN  << HeaderRow(getCSVHeaders(FormatOptionPerLine).headers) >> \o Data(1)

\* C19: after CreateSeparateCSVFiles returned nil the sessions file is the
\* header (id, topic, memoryPrompt) and one row (id, topic, memoryPrompt)
\* per session, and the messages file is, row for row and header included,
\* what a PerLine run that returned nil leaves for the same session list.
C19_MessagesFileIsPerLine ==
  /\ (op = "separate" /\ pc = "done" /\ ret = ErrNil) =>
        /\ RowsOf(MessagesFile) = PerLineOutput(sessions)
        /\ Len(RowsOf(SessionsFile)) = 1 + Len(sessions)
        /\ RowsOf(SessionsFile)[1].cells = << "id", "topic", "memoryPrompt" >>
        /\ \A i \in 1..Len(sessions) :
              RowsOf(SessionsFile)[i + 1].cells =
                << sessions[i].ID, sessions[i].Topic, sessions[i].MemoryPrompt >>
  /\ (ConvertEnded({ErrNil}) /\ formatOption = FormatOptionPerLine) =>
        RowsOf(OutputFile) = PerLineOutput(sessions)

\* CreateSeparateCSVFiles returned nil for a session with two messages and
\* a session without messages: three rows in the sessions file, three in
\* the messages file.
C19_Witness ==
  /\ op = "separate" /\ pc = "done" /\ ret = ErrNil
  /\ sessions = << SessionTwoMessages, SessionNoMessages >>
  /\ Len(RowsOf(SessionsFile)) = 3
  /\ Len(RowsOf(MessagesFile)) = 3
  /\ RowsOf(MessagesFile)[1].cells = PerLineHeader

\* The rows of the sessions table of the spec.
SessionsTable(ss) ==
  << HeaderRow(SessionsTableHeader) >>
  \o [i \in 1..Len(ss) |-> DataRow(<< ss[i].ID, ss[i].Topic, ss[i].MemoryPrompt >>)]

\* C20: CreateSeparateCSVFiles does not take back the sessions file: when
\* it has written the sessions rows and then fails to create the messages
\* file or to write to it, it returns an error that is not nil and the
\* sessions file is on disk with its header and the row of every session;
\* a call that returned nil left the whole messages file.
C20_SessionsFileRemains ==
  /\ (op = "separate" /\ pc = "done" /\ ret \in {ErrCreateMessages, ErrFlush}) =>
        /\ disk[SessionsFile].exists
        /\ RowsOf(SessionsFile) = SessionsTable(sessions)
  /\ (op = "separate" /\ pc = "done" /\ RowsOf(MessagesFile) # PerLineOutput(sessions)) =>
        ret # ErrNil

\* The messages file could not be created: the call returned the error,
\* there is no messages file, and the sessions file holds its header and
\* the rows of the two sessions.
C20_Witness ==
  /\ op = "separate" /\ pc = "done" /\ ret = ErrCreateMessages
  /\ ~disk[MessagesFile].exists
  /\ Len(sessions) = 2
  /\ RowsOf(SessionsFile) = SessionsTable(sessions)

(***************************************************************************)
(* Properties of the command line                                          *)
(***************************************************************************)
Printed(msg) == \E i \in 1..Len(out) : out[i] = msg

\* The errors the main package reports: the input file cannot be read or is
\* malformed or has the wrong shape, a selector is invalid, a conversion
\* failed.
ErrorReported ==
  \/ \E e \in {ErrOpen, ErrRepair, ErrWriteFile} : Printed(MsgRepairError(e))
  \/ \E e \in {ErrOpen, ErrSyntax, ErrUnmarshalType, ErrFormat} : Printed(MsgReadError(e))
  \/ Printed(MsgInvalidOutputOption)
  \/ Printed(MsgInvalidFormatOption)
  \/ Printed(MsgInvalidCSVFormatOption)
  \/ \E e \in {ErrCreate, ErrInvalidFormat} : printed = << MsgFailed(e) >>
  \/ \E e \in {ErrCreate, ErrCreateMessages, ErrFlush} : Printed(MsgCreateError(e))

\* The export was saved, or the program left early: after a repair, or at a
\* prompt that was cancelled or met the end of the input.
EndedWell ==
  \/ printed = << MsgSaved >>
  \/ Printed(MsgSessionsSaved(SessionsFile))
  \/ Printed(MsgDatasetSaved(DatasetFile))
  \/ Printed(MsgRepaired(RepairedPath(jsonFilePath)))
  \/ Printed(MsgReason)
  \/ Printed(MsgExitGracefully)

\* C21: the process exits with code 0 after a successful export and after
\* an explicit early exit (a successful repair, a prompt that was cancelled
\* or met the end of the input), and with code 1 after every error of
\* reading, parsing or format: an input file that cannot be read or is
\* malformed or has the wrong envelope, an invalid output option, an invalid
\* CSV format option, a conversion that failed.
C21_ExitCodes ==
  cli = "exit" =>
    /\ ErrorReported => exitCode = 1
    /\ EndedWell => exitCode = 0

\* The file ConfirmOverwrite is asking about, at each of its questions.
AskedAbout ==
  CASE cli = "confirmCSV" -> disk[OutputFile]
    [] cli = "confirmSessions" -> disk[SessionsFile]
    [] cli = "confirmMessages" -> disk[MessagesFile]
    [] cli = "confirmDataset" -> fsFiles[DatasetFile]
    [] OTHER -> [exists |-> TRUE]

\* The line, without the white space around it, is a yes in any case of
\* letters.
SaysYes(chunks) ==
  SelectSeq(chunks, LAMBDA c : c \notin {" ", "\t", "\n", "\r", "\r\n"})
    \in {<< "yes" >>, << "Yes" >>, << "YES" >>, << "yEs" >>}

\* What ConfirmOverwrite does when it is not cancelled: (false, err) when
\* the existence check fails, (true, nil) without a question when there is
\* no file, and after a question (false, err) when the read failed and
\* otherwise whether the answer is a yes.
ConfirmOverwriteContract(c) ==
  /\ c.found.err # ErrNil => ~c.asked /\ ~c.overwrite /\ c.err = c.found.err
  /\ (c.found.err = ErrNil /\ ~c.found.exists) => ~c.asked /\ c.overwrite /\ c.err = ErrNil
  /\ (c.found.err = ErrNil /\ c.found.exists) =>
        /\ c.asked
        /\ (c.chosen = "chan" /\ c.read.err # ErrNil) => ~c.overwrite /\ c.err = c.read.err
        /\ (c.chosen = "chan" /\ c.read.err = ErrNil) =>
              /\ c.err = ErrNil
              /\ c.overwrite <=> SaysYes(c.read.input)

RECURSIVE DropLeft(_)
DropLeft(chunks) ==
  IF chunks # << >> /\ Head(chunks) \in {" ", "\t", "\n", "\r", "\r\n"}
  THEN DropLeft(Tail(chunks))
  ELSE chunks

RECURSIVE DropRight(_)
DropRight(chunks) ==
  IF chunks # << >> /\ chunks[Len(chunks)] \in {" ", "\t", "\n", "\r", "\r\n"}
  THEN DropRight(SubSeq(chunks, 1, Len(chunks) - 1))
  ELSE chunks

RECURSIVE Glue(_)
Glue(chunks) == IF chunks = << >> THEN "" ELSE Head(chunks) \o Glue(Tail(chunks))

Stripped(chunks) == Glue(DropRight(DropLeft(chunks)))

\* The step in which promptForInput returns.
PromptReturns == Returned /\ sel' # sel

\* The context was cancelled before the read completed.
CancelledBeforeRead == ctxDone /\ (rd.state = "reading" \/ rd.late)

FilesAtStart == InitialFiles(diskBefore[OutputFile].exists)

ExportSaved == cli = "exit" /\ pc = "done" /\ ret = ErrNil /\ exitCode = 0

SeparateFilesSaved ==
  /\ op = "separate"
  /\ fileNames = << SessionsFile, MessagesFile >>
  /\ Printed(MsgSessionsSaved(SessionsFile))
  /\ Printed(MsgMessagesSaved(MessagesFile))
  /\ disk[SessionsFile].exists /\ RowsOf(SessionsFile) = SessionsTable(sessions)
  /\ disk[MessagesFile].exists /\ RowsOf(MessagesFile) = PerLineOutput(sessions)

VersionOf(tag) ==
  CASE tag = "1.3.3.6" -> 6
    [] tag = "1.3.3.7" -> 7
    [] tag = "v1.3.3.7" -> 7
    [] tag = "1.3.3.8" -> 8

Newer(tag, version) == VersionOf(tag) > VersionOf(version)

\* The update has begun to be downloaded or applied.
Updating ==
  \/ upc \in {"find", "download", "apply", "restart"}
  \/ assetURL # "" \/ tempFile.exists \/ binary # currentVersion \/ restarted

\* C26: UpdateApplication downloads and applies an update only when the tag
\* of the latest release names a version newer than the current one; when
\* the application is up to date it returns nil without downloading,
\* replacing the binary or restarting; and the binary is replaced only
\* after a matching asset was found and downloaded in full.
C26_UpdateOnlyWhenNewer ==
  /\ Updating => Newer(release.TagName, currentVersion)
  /\ (upc = "done" /\ fetched.err = ErrNil /\ ~Newer(release.TagName, currentVersion)) =>
        uret = ErrNil /\ ~Updating
  /\ binary # currentVersion =>
        /\ findMatchingAsset(release).err = ErrNil
        /\ binary = findMatchingAsset(release).url

(***************************************************************************)
(* Cancellation and overwriting in the flows of the command line           *)
(***************************************************************************)
\* C27: cancellation also applies to SeparateFiles: when the context is
\* cancelled before CreateSeparateCSVFiles processes a session, it stops
\* before writing the rows of that session and returns the cancellation.
C27_SeparateFilesCancellation ==
  [][(op = "separate" /\ ctxDone /\ sessions # << >>
      /\ pc \in {"writeSessions", "writeMessages"} /\ pc' # pc) =>
       /\ pc' = "done" /\ ret' = ErrCanceled
       /\ \A f \in FileNames :
            Len(disk'[f].rows) + Len(buffered'[f]) = Len(disk[f].rows) + Len(buffered[f])]_vars

\* ConfirmOverwrite returned (true, nil) for the name.
OverwriteConfirmed(name) ==
  \E i \in 1..Len(confirms) :
    confirms[i].fileName = name /\ confirms[i].overwrite /\ confirms[i].err = ErrNil

\* ConfirmOverwrite returned false for the name: it was declined, or the
\* existence check or the input failed or was cancelled.
OverwriteRefused(name) ==
  \E i \in 1..Len(confirms) : confirms[i].fileName = name /\ ~confirms[i].overwrite

Touched(f) == disk[f] # diskBefore[f] \/ buffered[f] # << >>

\* C28: in the single-CSV, SeparateFiles and dataset-save flows an output
\* file is created, truncated or written only after ConfirmOverwrite
\* returned true for its name; in SeparateFiles, when the overwrite is
\* declined, or the input fails or is cancelled, for either name, neither
\* file is created or modified.
C28_OverwriteSafety ==
  /\ \A f \in FileNames : Touched(f) => OverwriteConfirmed(f)
  /\ fsFiles[DatasetFile] # FilesAtStart[DatasetFile] => OverwriteConfirmed(DatasetFile)
  /\ op = "convert" => OverwriteConfirmed(OutputFile)
  /\ op = "separate" => OverwriteConfirmed(SessionsFile) /\ OverwriteConfirmed(MessagesFile)
  /\ (OverwriteRefused(SessionsFile) \/ OverwriteRefused(MessagesFile)
      \/ (formatOption = OutputFormatSeparateCSV /\ cli = "exit" /\ op = "off")) =>
        ~Touched(SessionsFile) /\ ~Touched(MessagesFile)

\* Both files were there, the user said yes twice, and the export replaced
\* them.
C28_Witness ==
  /\ cli = "exit" /\ op = "separate" /\ ret = ErrNil
  /\ diskBefore[SessionsFile] = StaleFile /\ diskBefore[MessagesFile] = StaleFile
  /\ Len(confirms) = 2 /\ confirms[1].asked /\ confirms[2].asked
  /\ OverwriteConfirmed(SessionsFile) /\ OverwriteConfirmed(MessagesFile)
  /\ Touched(SessionsFile) /\ Touched(MessagesFile)
  /\ RowsOf(SessionsFile) = SessionsTable(sessions)

\* The reader accepted the file.
Accepted(result) == result # NotRead /\ result.err = ErrNil

\* The repair ran on the file and the reader ran on both files.
RepairedAndRead == rpc = "file" /\ readResult # NotRead

\* C29: for every file ReadJSONFromFile accepts, RepairSessionData has an
\* output, and ReadJSONFromFile accepts that output and decodes it to the
\* same sessions, in the same order and with the same value in every field,
\* so that every CSV projection and the dataset are the same.
C29_RepairPreservesEveryAcceptedFile ==
  (RepairedAndRead /\ Accepted(readResult))
    => /\ ~repaired.err
       /\ readRepaired # NotRead => readRepaired = readResult

\* The prompts for the name of an output file.
FileNamePrompts ==
  {PromptEnterCSVFileName, PromptEnterSessionsCSVFileName, PromptEnterMessagesCSVFileName,
   PromptEnterFileName}

NoFileNamePrompt(printedOut) ==
  \A i \in 1..Len(printedOut) : printedOut[i] \notin FileNamePrompts

\* The entries that are integers, as the user types them.
IntegerEntries == {"-1", "0", "1", "2", "3", "4", "+4", "5"}

\* The entry at the prompt for the CSV format was read without an error and
\* processCSVOption acts on it.
ActsOnFormatEntry == cli = "format" /\ cli' # "format" /\ got'.err = ErrNil

\* The step of processCSVOption on the entry typed at the prompt for the CSV
\* format.
FormatEntryStep ==
  ActsOnFormatEntry =>
    /\ disk' = disk /\ fsFiles' = fsFiles /\ confirms' = confirms /\ op' = "off"
    /\ CASE got'.input = "1" ->
              /\ formatOption' = FormatOptionInline
              /\ cli' = "csvName" /\ out' = Append(out, PromptEnterCSVFileName)
         [] got'.input = "2" ->
              /\ formatOption' = FormatOptionPerLine
              /\ cli' = "csvName" /\ out' = Append(out, PromptEnterCSVFileName)
         [] got'.input = "3" ->
              /\ formatOption' = FormatOptionJSON
              /\ cli' = "csvName" /\ out' = Append(out, PromptEnterCSVFileName)
         [] got'.input \in {"4", "+4"} ->
              /\ formatOption' = OutputFormatSeparateCSVFiles
              /\ cli' = "sessionsName" /\ out' = Append(out, PromptEnterSessionsCSVFileName)
         [] OTHER ->
              /\ cli' = "exit"
              /\ out' = Append(out, IF got'.input \in IntegerEntries
                                    THEN MsgInvalidCSVFormatOption
                                    ELSE MsgInvalidFormatOption)
              /\ NoFileNamePrompt(out')

\* The program ended on an invalid entry for the CSV format.
FormatEntryRejected ==
  cli = "exit" /\ (Printed(MsgInvalidFormatOption) \/ Printed(MsgInvalidCSVFormatOption))

====
